---- MODULE Spec2Model ----
(***************************************************************************)
(* Model of the multi-buffer editor workspace (Go): the line-addressed     *)
(* text buffer, the XML tree buffer with its id index, and the workspace   *)
(* coordinator with its observers.                                         *)
(*                                                                         *)
(* Three specifications share the module:                                  *)
(*   SpecText  one TextEditor driven by its public operations,             *)
(*   SpecXML   one XMLEditor driven by its public operations, on a heap of *)
(*             XMLNode objects (addresses), so that aliasing is observable,*)
(*   Spec      the Workspace driven by Load/Init/Edit/Close/Save/Persist/  *)
(*             Restore.                                                    *)
(* A Go string is modelled as a sequence of units; a unit is one valid     *)
(* code point or one invalid byte (InvalidByte).                           *)
(***************************************************************************)
EXTENDS Integers, Sequences, FiniteSets, TLC

VARIABLES
    text,       \* the TextEditor: [lines, modified, undoStack, redoStack]
    tcall,      \* the last TextEditor call: [op, err]
    tmon,       \* observer of the current run of edits, undos and redo:
                \* [stage, op, pres, post, undone]

    xml,        \* the XMLEditor: [root, index, modified, undoStack, redoStack];
                \* root, the index values and the snapshots are heap addresses
    heap,       \* address -> XMLNode, the objects the XMLEditor can reach
    xcall,      \* the last XMLEditor call: [op, err]; a failed call is recorded
                \* as [op |-> "", err |-> TRUE]
    xmon,       \* observer of the current run of XML edits, undos and redo
    \* ---- the workspace ----
    editors,    \* Workspace.editors: absolute path -> open buffer
    active,     \* Workspace.active: a key of editors, or the empty path
    history,    \* Workspace.history: the open paths, most recently active first
    disk,       \* the file system under the base directory
    logger,     \* logging.Manager: [enabled, sessionStarted]
    stats,      \* statistics.Tracker
    stateFile,  \* the persisted WorkspaceState
    wcall,      \* the last Workspace call: [op, err, abs, prev, ret, fresh, was]: the path it
                \* was about, the active path it found, the buffer it returned and
                \* whether that buffer object is a new one
    calls,      \* the number of Workspace calls made so far
    spent,      \* per path, the time the tracker's clock has counted while it was active
    \* ---- the event bus ----
    bus,        \* events.Bus with its observers: [listeners, received, delivered]:
                \* what each observer has handled, and the Handle calls in the
                \* order they were made
    bmon,       \* observer of the bus: [published, due]: the events published so far
                \* and, per Publish, the subscriptions it found, [to, pub]
    \* ---- the process ----
    cwd,        \* the working directory of the process: what filepath.Abs joins to
    dcall,      \* the last Dispatcher command: [cmd, args, err, file, published]: its
                \* targetFile and the events it published
    thr         \* the goroutines that call the bus and the logger, and the locks:
                \* [th, mu, rw]: per goroutine the call it is in and the statement it
                \* is at, the holder of Manager.mu, and Bus.mu as [w, r, q]: the
                \* writer, the readers and the goroutines waiting in Lock

textVars == <<text, tcall, tmon>>
xmlVars == <<xml, heap, xcall, xmon>>
busVars == <<bus, bmon>>
procVars == <<cwd, dcall, thr>>
wsVars == <<editors, active, history, disk, logger, stats, stateFile, wcall, calls, spent, bus, bmon,
            cwd, dcall, thr>>
vars == <<text, tcall, tmon, xml, heap, xcall, xmon,
          editors, active, history, disk, logger, stats, stateFile, wcall, calls, spent,
          bus, bmon, cwd, dcall, thr>>

(***************************************************************************)
(* Bounds of the model.                                                    *)
(***************************************************************************)
MaxLines == 2       \* lines of a text buffer after an edit
MaxLineLen == 2     \* units of a line after an edit
MaxUndo == 2        \* records on a buffer's undo stack
MaxArg == 2         \* largest line / column / length argument
MaxNodes == 3       \* elements of an XML tree after an edit
MaxWsUndo == 1      \* records on the undo stack of a buffer of the workspace
MaxCalls == 4       \* Workspace calls in one run
MaxThreads == 3     \* goroutines sharing the bus and the logger
MaxOps == 2         \* calls one goroutine makes
MaxTrace == 4       \* calls of the logger whose call and return are recorded
MaxClock == 3       \* ticks of the tracker's clock in one run
MaxListeners == 3   \* subscriptions of the event bus
MaxPublish == 3     \* events published on the bus in one run

(***************************************************************************)
(* Strings.                                                                *)
(***************************************************************************)
LF == "LF"
CR == "CR"
InvalidByte == "xFF"        \* a byte that is no valid UTF-8 encoding
ReplacementChar == "uFFFD"  \* what []rune(s) yields for such a byte

\* []rune(s): one rune per unit, an invalid byte decodes to U+FFFD.
ToRunes(s) == [i \in 1..Len(s) |-> IF s[i] = InvalidByte THEN ReplacementChar ELSE s[i]]

\* string(runes): every rune is encoded as itself.
RunesToString(r) == r

\* utf8.RuneCountInString(s): an invalid byte counts as one rune.
RuneCountInString(s) == Len(s)

\* s[from:] and s[:to] on 0-based Go indices.
SliceFrom(s, from) == SubSeq(s, from + 1, Len(s))
SliceTo(s, to) == SubSeq(s, 1, to)

RECURSIVE ReplaceAllCRLF(_)
\* strings.ReplaceAll(s, "\r\n", "\n")
ReplaceAllCRLF(s) ==
    IF s = <<>> THEN <<>>
    ELSE IF Len(s) >= 2 /\ s[1] = CR /\ s[2] = LF
         THEN <<LF>> \o ReplaceAllCRLF(SliceFrom(s, 2))
         ELSE <<s[1]>> \o ReplaceAllCRLF(Tail(s))

RECURSIVE SplitLF(_)
\* strings.Split(s, "\n"): always at least one fragment.
SplitLF(s) ==
    IF \A i \in 1..Len(s) : s[i] # LF THEN <<s>>
    ELSE LET i == CHOOSE k \in 1..Len(s) : s[k] = LF /\ \A j \in 1..(k - 1) : s[j] # LF
         IN <<SliceTo(s, i - 1)>> \o SplitLF(SliceFrom(s, i))

RECURSIVE JoinLF(_)
\* strings.Join(lines, "\n")
JoinLF(ls) ==
    IF ls = <<>> THEN <<>>
    ELSE IF Len(ls) = 1 THEN ls[1]
    ELSE ls[1] \o <<LF>> \o JoinLF(Tail(ls))

(***************************************************************************)
(* Text buffer.                                                            *)
(***************************************************************************)
\* splitLines: the lines of a file read by Load.
splitLines(data) ==
    IF data = <<>> THEN <<>>
    ELSE LET ls == SplitLF(ReplaceAllCRLF(data))
         IN IF Len(ls) > 0 /\ ls[Len(ls)] = <<>> THEN SliceTo(ls, Len(ls) - 1) ELSE ls

splitWithKeep(t) ==
    IF t = <<>> THEN << <<>> >> ELSE SplitLF(ReplaceAllCRLF(t))

\* cloneLines copies the slice; the strings are immutable, so the copy is the value.
cloneLines(src) == [i \in 1..Len(src) |-> src[i]]

NewTextEditor(ls, mod) ==
    [lines |-> cloneLines(ls), modified |-> mod, undoStack |-> <<>>, redoStack |-> <<>>]

\* TRUE when the position is accepted (the Go function returns nil).
ensureLinePosition(ls, line, col, allowEOF) ==
    IF Len(ls) = 0 THEN allowEOF /\ line = 1 /\ col = 1
    ELSE IF line < 1 \/ line > Len(ls) THEN FALSE
    ELSE LET lineLen == RuneCountInString(ls[line])
             maxCol == IF allowEOF THEN lineLen + 1 ELSE lineLen
         IN ~(col < 1 \/ col > maxCol)

\* [err, left, right]
splitLineAtColumn(l, col) ==
    LET runes == ToRunes(l)
    IN IF col < 1 \/ col > Len(runes) + 1
       THEN [err |-> TRUE, left |-> <<>>, right |-> <<>>]
       ELSE [err |-> FALSE,
             left |-> RunesToString(SliceTo(runes, col - 1)),
             right |-> RunesToString(SliceFrom(runes, col - 1))]

\* Insert putting the text at the end of the line, whatever the column.
insertSpanAtEnd(ls, line, col, t) ==
    IF ~ensureLinePosition(ls, line, col, TRUE) THEN [err |-> TRUE, lines |-> ls]
    ELSE LET ls1 == IF Len(ls) = 0 THEN << <<>> >> ELSE ls
             sp == splitLineAtColumn(ls1[line], col)
         IN IF sp.err THEN [err |-> TRUE, lines |-> ls1]
            ELSE [err |-> FALSE,
                  lines |-> [ls1 EXCEPT ![line] = sp.left \o sp.right \o SplitLF(t)[1]]]

\* insertSpan leaving out the fragments between the first and the last.
insertSpanDropMiddle(ls, line, col, t) ==
    IF ~ensureLinePosition(ls, line, col, TRUE) THEN [err |-> TRUE, lines |-> ls]
    ELSE LET ls1 == IF Len(ls) = 0 THEN << <<>> >> ELSE ls
             sp == splitLineAtColumn(ls1[line], col)
             newLines == splitWithKeep(t)
             n == Len(newLines)
         IN IF sp.err THEN [err |-> TRUE, lines |-> ls1]
            ELSE IF n = 1
            THEN [err |-> FALSE,
                  lines |-> [ls1 EXCEPT ![line] = sp.left \o newLines[1] \o sp.right]]
            ELSE [err |-> FALSE,
                  lines |-> SliceTo(ls1, line - 1)
                            \o <<sp.left \o newLines[1]>>
                            \o <<newLines[n] \o sp.right>>
                            \o SliceFrom(ls1, line)]

\* The mutators return [err, lines]: lines is e.lines when the Go function returns.
insertSpan(ls, line, col, t) ==
    IF ~ensureLinePosition(ls, line, col, TRUE) THEN [err |-> TRUE, lines |-> ls]
    ELSE LET ls1 == IF Len(ls) = 0 THEN << <<>> >> ELSE ls
             sp == splitLineAtColumn(ls1[line], col)
             newLines == splitWithKeep(t)
             n == Len(newLines)
         IN IF sp.err THEN [err |-> TRUE, lines |-> ls1]
            ELSE IF n = 1
            THEN [err |-> FALSE,
                  lines |-> [ls1 EXCEPT ![line] = sp.left \o newLines[1] \o sp.right]]
            ELSE [err |-> FALSE,
                  lines |-> SliceTo(ls1, line - 1)
                            \o <<sp.left \o newLines[1]>>
                            \o (IF n > 2 THEN SubSeq(newLines, 2, n - 1) ELSE <<>>)
                            \o <<newLines[n] \o sp.right>>
                            \o SliceFrom(ls1, line)]

\* deleteSpan cutting the line before it validates the length.
deleteSpanCutFirst(ls, line, col, length) ==
    IF ~ensureLinePosition(ls, line, col, FALSE) THEN [err |-> TRUE, lines |-> ls]
    ELSE IF length < 1 THEN [err |-> TRUE, lines |-> ls]
    ELSE LET runes == ToRunes(ls[line])
             cut == [ls EXCEPT ![line] =
                        RunesToString(SliceTo(runes, col - 1))
                        \o RunesToString(SubSeq(runes, col + length, Len(runes)))]
         IN [err |-> col - 1 + length > Len(runes), lines |-> cut]

deleteSpan(ls, line, col, length) ==
    IF ~ensureLinePosition(ls, line, col, FALSE) THEN [err |-> TRUE, lines |-> ls]
    ELSE IF length < 1 THEN [err |-> TRUE, lines |-> ls]
    ELSE LET runes == ToRunes(ls[line])
         IN IF col - 1 + length > Len(runes) THEN [err |-> TRUE, lines |-> ls]
            ELSE [err |-> FALSE,
                  lines |-> [ls EXCEPT ![line] =
                                RunesToString(SliceTo(runes, col - 1))
                                \o RunesToString(SliceFrom(runes, col - 1 + length))]]

\* Append storing its text as one line.
appendMutateWhole(ls, t) == [err |-> FALSE, lines |-> Append(ls, t)]

appendMutate(ls, t) == [err |-> FALSE, lines |-> ls \o splitWithKeep(t)]

\* Replace inserting the text before it deletes.
replaceMutateInsertFirst(ls, line, col, length, t) ==
    LET i == insertSpan(ls, line, col, t)
    IN IF i.err THEN i ELSE deleteSpan(i.lines, line, col, length)

replaceMutate(ls, line, col, length, t) ==
    LET d == deleteSpan(ls, line, col, length)
    IN IF d.err THEN d ELSE insertSpan(d.lines, line, col, t)

\* execute leaving the redo stack as it is.
executeKeepRedo(e, desc, m) ==
    LET before == cloneLines(e.lines)
    IN IF m.err THEN [e EXCEPT !.lines = m.lines]
       ELSE LET after == cloneLines(m.lines)
                cmd == [description |-> desc, before |-> before, after |-> after]
            IN [lines |-> m.lines,
                modified |-> TRUE,
                undoStack |-> Append(e.undoStack, cmd),
                redoStack |-> e.redoStack]

\* execute: e is the editor before the call, m what the mutate closure did to lines.
execute(e, desc, m) ==
    LET before == cloneLines(e.lines)
    IN IF m.err THEN [e EXCEPT !.lines = m.lines]
       ELSE LET after == cloneLines(m.lines)
                cmd == [description |-> desc, before |-> before, after |-> after]
            IN [lines |-> m.lines,
                modified |-> TRUE,
                undoStack |-> Append(e.undoStack, cmd),
                redoStack |-> <<>>]

\* Undo leaving the modified flag as it was.
TextUndoApplyKeepFlag(e) ==
    LET last == e.undoStack[Len(e.undoStack)]
    IN [lines |-> cloneLines(last.before),
        modified |-> e.modified,
        undoStack |-> SliceTo(e.undoStack, Len(e.undoStack) - 1),
        redoStack |-> Append(e.redoStack, last)]

\* Undo restoring the record's after-snapshot.
TextUndoApplyAfter(e) ==
    LET last == e.undoStack[Len(e.undoStack)]
    IN [lines |-> cloneLines(last.after),
        modified |-> TRUE,
        undoStack |-> SliceTo(e.undoStack, Len(e.undoStack) - 1),
        redoStack |-> Append(e.redoStack, last)]

TextUndoApply(e) ==
    LET last == e.undoStack[Len(e.undoStack)]
    IN [lines |-> cloneLines(last.before),
        modified |-> TRUE,
        undoStack |-> SliceTo(e.undoStack, Len(e.undoStack) - 1),
        redoStack |-> Append(e.redoStack, last)]

TextRedoApply(e) ==
    LET last == e.redoStack[Len(e.redoStack)]
    IN [lines |-> cloneLines(last.after),
        modified |-> TRUE,
        undoStack |-> Append(e.undoStack, last),
        redoStack |-> SliceTo(e.redoStack, Len(e.redoStack) - 1)]

\* Content(): the bytes Save writes.
TextContent(e) == JoinLF(e.lines)

(***************************************************************************)
(* Inputs of the text buffer.                                              *)
(***************************************************************************)
TextArgs ==
    { <<>>, <<"a">>, <<"b", CR, LF>> }

FileData ==
    { <<>>, <<"a", "b">>, <<"a", LF, "b", LF>>, <<InvalidByte, CR, LF>>, <<LF>> }

ArgInts == 0..MaxArg

EditOps == {"append", "insert", "delete", "replace"}

WithinTextBounds(ls) ==
    /\ Len(ls) <= MaxLines
    /\ \A i \in 1..Len(ls) : Len(ls[i]) <= MaxLineLen

\* The observer: "edits" while successful edits follow one another (pres holds the
\* lines before each of them, post the lines after the last), "undos" while Undos
\* follow that run, "redo" after edit, Undo, Redo.
NoRun == [stage |-> "none", op |-> "", pres |-> <<>>, post |-> <<>>, undone |-> 0]

AfterEdit(mon, desc, pre, post) ==
    [stage |-> "edits", op |-> desc,
     pres |-> IF mon.stage = "edits" THEN Append(mon.pres, pre) ELSE <<pre>>,
     post |-> post, undone |-> 0]

AfterUndo(mon) ==
    IF mon.stage \in {"edits", "undos"} /\ mon.undone < Len(mon.pres)
    THEN [mon EXCEPT !.stage = "undos", !.undone = mon.undone + 1]
    ELSE NoRun

AfterRedo(mon) ==
    IF mon.stage = "undos" /\ mon.undone = 1
    THEN [mon EXCEPT !.stage = "redo"]
    ELSE NoRun

\* One call of an editing operation whose closure produced m.
TextEditStep(desc, m) ==
    /\ m.err \/ (WithinTextBounds(m.lines) /\ Len(text.undoStack) < MaxUndo)
    /\ text' = execute(text, desc, m)
    /\ tcall' = [op |-> desc, err |-> m.err]
    /\ tmon' = IF m.err THEN tmon ELSE AfterEdit(tmon, desc, text.lines, m.lines)
    /\ UNCHANGED <<xmlVars, wsVars>>

TextAppend ==
    \E t \in TextArgs : TextEditStep("append", appendMutate(text.lines, t))

TextInsert ==
    \E line \in ArgInts, col \in ArgInts, t \in TextArgs :
        TextEditStep("insert", insertSpan(text.lines, line, col, t))

TextDelete ==
    \E line \in ArgInts, col \in ArgInts, length \in ArgInts :
        TextEditStep("delete", deleteSpan(text.lines, line, col, length))

TextReplace ==
    \E line \in ArgInts, col \in ArgInts, length \in ArgInts, t \in TextArgs :
        TextEditStep("replace", replaceMutate(text.lines, line, col, length, t))

\* Undo and Redo of the TextEditor e: [err, ed]
TextUndoCall(e) ==
    IF Len(e.undoStack) = 0 THEN [err |-> TRUE, ed |-> e]
    ELSE [err |-> FALSE, ed |-> TextUndoApply(e)]

TextRedoCall(e) ==
    IF Len(e.redoStack) = 0 THEN [err |-> TRUE, ed |-> e]
    ELSE [err |-> FALSE, ed |-> TextRedoApply(e)]

TextUndo ==
    /\ text' = TextUndoCall(text).ed
    /\ tcall' = [op |-> "undo", err |-> TextUndoCall(text).err]
    /\ tmon' = IF TextUndoCall(text).err THEN tmon ELSE AfterUndo(tmon)
    /\ UNCHANGED <<xmlVars, wsVars>>

TextRedo ==
    /\ text' = TextRedoCall(text).ed
    /\ tcall' = [op |-> "redo", err |-> TextRedoCall(text).err]
    /\ tmon' = IF TextRedoCall(text).err THEN tmon ELSE AfterRedo(tmon)
    /\ UNCHANGED <<xmlVars, wsVars>>

(***************************************************************************)
(* XML buffer.  XMLNode objects live in heap; 0 is the nil pointer.  Every  *)
(* Children slice is built by make or append on the node that owns it, so  *)
(* no two nodes share a backing array and a slice is modelled by its value.*)
(***************************************************************************)
Nil == 0

Range(f) == {f[i] : i \in DOMAIN f}

SeqMax(S) == IF S = {} THEN 0 ELSE CHOOSE m \in S : \A k \in S : k <= m

\* The n addresses handed out by the next n allocations.
FreshAddrs(h, n) == [i \in 1..n |-> SeqMax(DOMAIN h) + i]

\* The position of v in a sequence without repetitions.
IndexOf(seq, v) == CHOOSE i \in 1..Len(seq) : seq[i] = v

FirstIndexOf(seq, v) == CHOOSE i \in 1..Len(seq) : seq[i] = v /\ \A j \in 1..(i - 1) : seq[j] # v

SPACE == " "

\* unicode.IsSpace, over the units of the model
IsSpace(u) == u \in {SPACE, LF, CR}

RECURSIVE TrimLeft(_)
TrimLeft(s) == IF s # <<>> /\ IsSpace(s[1]) THEN TrimLeft(Tail(s)) ELSE s

RECURSIVE TrimRight(_)
TrimRight(s) ==
    IF s # <<>> /\ IsSpace(s[Len(s)]) THEN TrimRight(SliceTo(s, Len(s) - 1)) ELSE s

\* strings.TrimSpace
TrimSpace(s) == TrimRight(TrimLeft(s))

RECURSIVE Preorder(_, _)
RECURSIVE PreorderAll(_, _)
\* The nodes of the subtree at a, in document order.
Preorder(h, a) == <<a>> \o PreorderAll(h, h[a].Children)
PreorderAll(h, cs) ==
    IF cs = <<>> THEN <<>> ELSE Preorder(h, cs[1]) \o PreorderAll(h, Tail(cs))

TreeNodes(h, a) == Range(Preorder(h, a))

RECURSIVE TreeVal(_, _)
\* The subtree at a as a value: what a deep comparison of two trees compares.
TreeVal(h, a) ==
    [Tag |-> h[a].Tag, ID |-> h[a].ID, Attributes |-> h[a].Attributes,
     Text |-> h[a].Text,
     Children |-> [i \in 1..Len(h[a].Children) |-> TreeVal(h, h[a].Children[i])]]

\* cloneTree(node, parent): [heap, addr]. The clone of a node is allocated before
\* the clones of its children, and its Parent is the clone of the node that holds it.
cloneTree(h, a, parent) ==
    IF a = Nil THEN [heap |-> h, addr |-> Nil]
    ELSE LET order == Preorder(h, a)
             fresh == FreshAddrs(h, Len(order))
             to(o) == fresh[IndexOf(order, o)]
             holder(o) == CHOOSE q \in Range(order) : o \in Range(h[q].Children)
             cloned == [n \in Range(fresh) |->
                          LET o == order[IndexOf(fresh, n)]
                          IN [Tag |-> h[o].Tag,
                              ID |-> h[o].ID,
                              Text |-> h[o].Text,
                              Attributes |-> [i \in 1..Len(h[o].Attributes) |-> h[o].Attributes[i]],
                              attrIndex |-> [k \in DOMAIN h[o].attrIndex |-> h[o].attrIndex[k]],
                              Parent |-> IF o = a THEN parent ELSE to(holder(o)),
                              Children |-> [i \in 1..Len(h[o].Children) |-> to(h[o].Children[i])]]]
         IN [heap |-> cloned @@ h, addr |-> fresh[1]]

RECURSIVE IndexNodes(_, _, _)
\* index[node.ID] = node for every node of order, in order.
IndexNodes(h, order, index) ==
    IF order = <<>> THEN index
    ELSE IndexNodes(h, Tail(order), (h[order[1]].ID :> order[1]) @@ index)

\* rebuildIndex(node, index): [heap, index]; every child's Parent is reset to the
\* node that holds it. (attrIndex is never nil for nodes built by this package.)
rebuildIndex(h, a, index) ==
    IF a = Nil THEN [heap |-> h, index |-> index]
    ELSE LET order == Preorder(h, a)
             inTree == Range(order)
             holder(o) == CHOOSE q \in inTree : o \in Range(h[q].Children)
         IN [heap |-> [n \in DOMAIN h |->
                          IF n \in inTree /\ n # a
                          THEN [h[n] EXCEPT !.Parent = holder(n)]
                          ELSE h[n]],
             index |-> IndexNodes(h, order, index)]

EmptyIndex == [k \in {} |-> Nil]

NewXMLEditor(h, root, mod) ==
    LET r == rebuildIndex(h, root, EmptyIndex)
    IN [xml |-> [root |-> root, index |-> r.index, modified |-> mod,
                 undoStack |-> <<>>, redoStack |-> <<>>],
        heap |-> r.heap]

\* NewDefaultXMLDocument(withLog): [heap, addr]
NewDefaultXMLDocument(withLog) ==
    LET attrs == IF withLog
                 THEN <<[Name |-> "id", Value |-> "root"], [Name |-> "log", Value |-> "true"]>>
                 ELSE <<[Name |-> "id", Value |-> "root"]>>
        attrIndex == IF withLog THEN ("id" :> 0) @@ ("log" :> 1) ELSE ("id" :> 0)
    IN [heap |-> (1 :> [Tag |-> "root", ID |-> "root", Attributes |-> attrs,
                        attrIndex |-> attrIndex, Text |-> <<>>,
                        Children |-> <<>>, Parent |-> Nil]),
        addr |-> 1]

NoText == [isNil |-> TRUE, s |-> <<>>]
SomeText(s) == [isNil |-> FALSE, s |-> s]

\* createXMLNode(tag, id, text): the node value; the caller sets Parent.
createXMLNode(tag, id, t) ==
    [Tag |-> tag, ID |-> id,
     Attributes |-> <<[Name |-> "id", Value |-> id]>>,
     attrIndex |-> ("id" :> 0),
     Text |-> IF t.isNil THEN <<>> ELSE t.s,
     Children |-> <<>>, Parent |-> Nil]

registerNode(h, n, index) == (h[n].ID :> n) @@ index

RemoveKeys(index, keys) == [k \in DOMAIN index \ keys |-> index[k]]

RECURSIVE removeFromIndex(_, _, _)
RECURSIVE removeAllFromIndex(_, _, _)
\* delete(index, node.ID), then the same for every child.
removeFromIndex(h, a, index) ==
    IF a = Nil THEN index
    ELSE removeAllFromIndex(h, h[a].Children, RemoveKeys(index, {h[a].ID}))
removeAllFromIndex(h, cs, index) ==
    IF cs = <<>> THEN index
    ELSE removeAllFromIndex(h, Tail(cs), removeFromIndex(h, cs[1], index))

\* 0-based position of child among parent.Children, -1 when it is not there.
indexOfChild(h, parent, child) ==
    IF child \in Range(h[parent].Children)
    THEN FirstIndexOf(h[parent].Children, child) - 1
    ELSE -1

\* The result of a mutate closure: the error kind ("" for nil) and e's heap and index.
Failed(kind, h, index) == [err |-> kind, heap |-> h, index |-> index]
Done(h, index) == [err |-> "", heap |-> h, index |-> index]

InsertBeforeMutate(h, index, tag, newID, targetID, t) ==
    IF newID \in DOMAIN index THEN Failed("DuplicateId", h, index)
    ELSE IF targetID \notin DOMAIN index THEN Failed("NotFound", h, index)
    ELSE LET target == index[targetID]
             parent == h[target].Parent
         IN IF parent = Nil THEN Failed("RootProtected", h, index)
            ELSE IF TrimSpace(h[parent].Text) # <<>> THEN Failed("MixedContent", h, index)
            ELSE LET n == FreshAddrs(h, 1)[1]
                     node == [createXMLNode(tag, newID, t) EXCEPT !.Parent = parent]
                     idx == indexOfChild(h, parent, target)
                     kids == h[parent].Children
                 IN IF idx < 0 THEN Failed("panic", h, index)
                    ELSE LET h1 == (n :> node) @@
                                   [h EXCEPT ![parent].Children =
                                        SliceTo(kids, idx) \o <<n>> \o SliceFrom(kids, idx)]
                         IN Done(h1, registerNode(h1, n, index))

\* AppendChild without the check of the parent's text.
AppendChildMutateNoTextCheck(h, index, tag, newID, parentID, t) ==
    IF newID \in DOMAIN index THEN Failed("DuplicateId", h, index)
    ELSE IF parentID \notin DOMAIN index THEN Failed("NotFound", h, index)
    ELSE LET parent == index[parentID]
             n == FreshAddrs(h, 1)[1]
             node == [createXMLNode(tag, newID, t) EXCEPT !.Parent = parent]
             h1 == (n :> node) @@
                   [h EXCEPT ![parent].Children = Append(h[parent].Children, n)]
         IN Done(h1, registerNode(h1, n, index))

AppendChildMutate(h, index, tag, newID, parentID, t) ==
    IF newID \in DOMAIN index THEN Failed("DuplicateId", h, index)
    ELSE IF parentID \notin DOMAIN index THEN Failed("NotFound", h, index)
    ELSE LET parent == index[parentID]
         IN IF TrimSpace(h[parent].Text) # <<>> THEN Failed("MixedContent", h, index)
            ELSE LET n == FreshAddrs(h, 1)[1]
                     node == [createXMLNode(tag, newID, t) EXCEPT !.Parent = parent]
                     h1 == (n :> node) @@
                           [h EXCEPT ![parent].Children = Append(h[parent].Children, n)]
                 IN Done(h1, registerNode(h1, n, index))

\* The id attribute as EditID rewrites it.
RenamedAttributes(node, newID) ==
    IF "id" \in DOMAIN node.attrIndex
    THEN [node EXCEPT !.ID = newID,
                      !.Attributes[node.attrIndex["id"] + 1].Value = newID]
    ELSE [node EXCEPT !.ID = newID,
                      !.attrIndex = ("id" :> Len(node.Attributes)) @@ node.attrIndex,
                      !.Attributes = Append(node.Attributes, [Name |-> "id", Value |-> newID])]

\* EditID dropping the old index entry before it checks the new id.
EditIDMutateDeleteFirst(h, index, oldID, newID) ==
    IF oldID \notin DOMAIN index THEN Failed("NotFound", h, index)
    ELSE LET node == index[oldID]
         IN IF h[node].Parent = Nil THEN Failed("RootProtected", h, index)
            ELSE IF newID \in DOMAIN RemoveKeys(index, {oldID})
                 THEN Failed("DuplicateId", h, RemoveKeys(index, {oldID}))
            ELSE Done([h EXCEPT ![node] = RenamedAttributes(h[node], newID)],
                      (newID :> node) @@ RemoveKeys(index, {oldID}))

\* EditID without the check that the element is not the root.
EditIDMutateAnyNode(h, index, oldID, newID) ==
    IF oldID \notin DOMAIN index THEN Failed("NotFound", h, index)
    ELSE LET node == index[oldID]
         IN IF newID \in DOMAIN index THEN Failed("DuplicateId", h, index)
            ELSE Done([h EXCEPT ![node] = RenamedAttributes(h[node], newID)],
                      (newID :> node) @@ RemoveKeys(index, {oldID}))

EditIDMutate(h, index, oldID, newID) ==
    IF oldID \notin DOMAIN index THEN Failed("NotFound", h, index)
    ELSE LET node == index[oldID]
         IN IF h[node].Parent = Nil THEN Failed("RootProtected", h, index)
            ELSE IF newID \in DOMAIN index THEN Failed("DuplicateId", h, index)
            ELSE Done([h EXCEPT ![node] = RenamedAttributes(h[node], newID)],
                      (newID :> node) @@ RemoveKeys(index, {oldID}))

EditTextMutate(h, index, elementID, s) ==
    IF elementID \notin DOMAIN index THEN Failed("NotFound", h, index)
    ELSE LET node == index[elementID]
         IN IF Len(h[node].Children) > 0 THEN Failed("MixedContent", h, index)
            ELSE Done([h EXCEPT ![node].Text = s], index)

\* DeleteElement dropping only the element's own index entry.
DeleteElementMutateShallow(h, index, elementID) ==
    IF elementID \notin DOMAIN index THEN Failed("NotFound", h, index)
    ELSE LET node == index[elementID]
             parent == h[node].Parent
         IN IF parent = Nil THEN Failed("RootProtected", h, index)
            ELSE LET idx == indexOfChild(h, parent, node)
                     kids == h[parent].Children
                 IN IF idx < 0 THEN Failed("panic", h, index)
                    ELSE Done([h EXCEPT ![parent].Children =
                                   SliceTo(kids, idx) \o SliceFrom(kids, idx + 1)],
                              RemoveKeys(index, {h[node].ID}))

DeleteElementMutate(h, index, elementID) ==
    IF elementID \notin DOMAIN index THEN Failed("NotFound", h, index)
    ELSE LET node == index[elementID]
             parent == h[node].Parent
         IN IF parent = Nil THEN Failed("RootProtected", h, index)
            ELSE LET idx == indexOfChild(h, parent, node)
                     kids == h[parent].Children
                 IN IF idx < 0 THEN Failed("panic", h, index)
                    ELSE Done([h EXCEPT ![parent].Children =
                                   SliceTo(kids, idx) \o SliceFrom(kids, idx + 1)],
                              removeFromIndex(h, node, index))

(***************************************************************************)
(* Garbage collection.  An object no pointer reaches cannot be observed,   *)
(* and addresses are opaque: after each call the heap is cut down to the   *)
(* reachable objects and these are renumbered in a fixed order (the tree,  *)
(* the undo snapshots, the redo snapshots, then whatever else the index or *)
(* a Parent pointer still reaches).                                        *)
(***************************************************************************)
RECURSIVE Reach(_, _)
Reach(h, S) ==
    LET next == S \cup UNION {Range(h[a].Children) \cup ({h[a].Parent} \ {Nil}) : a \in S}
    IN IF next = S THEN S ELSE Reach(h, next)

RECURSIVE SnapshotOrder(_, _)
SnapshotOrder(h, stack) ==
    IF stack = <<>> THEN <<>>
    ELSE Preorder(h, stack[1].before) \o Preorder(h, stack[1].after)
         \o SnapshotOrder(h, Tail(stack))

RECURSIVE Ascending(_)
Ascending(S) ==
    IF S = {} THEN <<>>
    ELSE LET m == CHOOSE x \in S : \A y \in S : x <= y
         IN <<m>> \o Ascending(S \ {m})

RECURSIVE Dedup(_, _)
Dedup(seq, seen) ==
    IF seq = <<>> THEN <<>>
    ELSE IF seq[1] \in seen THEN Dedup(Tail(seq), seen)
    ELSE <<seq[1]>> \o Dedup(Tail(seq), seen \cup {seq[1]})

Collect(x, h) ==
    LET named == Preorder(h, x.root) \o SnapshotOrder(h, x.undoStack)
                 \o SnapshotOrder(h, x.redoStack)
        live == Reach(h, Range(named) \cup Range(x.index))
        order == Dedup(named, {}) \o Ascending(live \ Range(named))
        to(a) == IF a = Nil THEN Nil ELSE IndexOf(order, a)
        moveStack(stack) ==
            [i \in 1..Len(stack) |->
                [description |-> stack[i].description,
                 before |-> to(stack[i].before), after |-> to(stack[i].after)]]
    IN [xml |-> [root |-> to(x.root),
                 index |-> [k \in DOMAIN x.index |-> to(x.index[k])],
                 modified |-> x.modified,
                 undoStack |-> moveStack(x.undoStack),
                 redoStack |-> moveStack(x.redoStack)],
        heap |-> [n \in 1..Len(order) |->
                     [h[order[n]] EXCEPT
                         !.Parent = to(h[order[n]].Parent),
                         !.Children = [i \in 1..Len(h[order[n]].Children) |->
                                          to(h[order[n]].Children[i])]]]]

\* Collect, short-cut for a call that left the editor and every object it could
\* reach as they were in the current state (it only allocated garbage).
Settle(x, h) ==
    IF x = xml /\ DOMAIN heap \subseteq DOMAIN h /\ \A a \in DOMAIN heap : h[a] = heap[a]
    THEN [xml |-> xml, heap |-> heap]
    ELSE Collect(x, h)

(***************************************************************************)
(* The XMLEditor's calls: [err, xml, heap] after the call.                 *)
(***************************************************************************)
\* execute(desc, mutate): before is the clone execute takes first, m the result of
\* the closure run on the heap that holds this clone and on e's index.
XmlExecute(x, desc, before, m) ==
    IF m.err # ""
    THEN [err |-> m.err, xml |-> [x EXCEPT !.index = m.index], heap |-> m.heap]
    ELSE LET after == cloneTree(m.heap, x.root, Nil)
             cmd == [description |-> desc, before |-> before.addr, after |-> after.addr]
         IN [err |-> "",
             xml |-> [root |-> x.root, index |-> m.index, modified |-> TRUE,
                      undoStack |-> Append(x.undoStack, cmd), redoStack |-> <<>>],
             heap |-> after.heap]

\* applySnapshot installing the snapshot itself as the tree.
applySnapshotShared(x, h, snapshot) ==
    LET r == rebuildIndex(h, snapshot, EmptyIndex)
    IN [xml |-> [x EXCEPT !.root = snapshot, !.index = r.index], heap |-> r.heap]

applySnapshot(x, h, snapshot) ==
    LET cloned == cloneTree(h, snapshot, Nil)
        r == rebuildIndex(cloned.heap, cloned.addr, EmptyIndex)
    IN [xml |-> [x EXCEPT !.root = cloned.addr, !.index = r.index], heap |-> r.heap]

XmlUndoApply(x, h) ==
    IF Len(x.undoStack) = 0 THEN [err |-> "HistoryEmpty", xml |-> x, heap |-> h]
    ELSE LET last == x.undoStack[Len(x.undoStack)]
             popped == [x EXCEPT !.undoStack = SliceTo(x.undoStack, Len(x.undoStack) - 1)]
             s == applySnapshot(popped, h, last.before)
         IN [err |-> "",
             xml |-> [s.xml EXCEPT !.redoStack = Append(s.xml.redoStack, last),
                                   !.modified = TRUE],
             heap |-> s.heap]

\* Redo restoring the record's before-snapshot.
XmlRedoApplyBefore(x, h) ==
    IF Len(x.redoStack) = 0 THEN [err |-> "HistoryEmpty", xml |-> x, heap |-> h]
    ELSE LET last == x.redoStack[Len(x.redoStack)]
             popped == [x EXCEPT !.redoStack = SliceTo(x.redoStack, Len(x.redoStack) - 1)]
             s == applySnapshot(popped, h, last.before)
         IN [err |-> "",
             xml |-> [s.xml EXCEPT !.undoStack = Append(s.xml.undoStack, last),
                                   !.modified = TRUE],
             heap |-> s.heap]

XmlRedoApply(x, h) ==
    IF Len(x.redoStack) = 0 THEN [err |-> "HistoryEmpty", xml |-> x, heap |-> h]
    ELSE LET last == x.redoStack[Len(x.redoStack)]
             popped == [x EXCEPT !.redoStack = SliceTo(x.redoStack, Len(x.redoStack) - 1)]
             s == applySnapshot(popped, h, last.after)
         IN [err |-> "",
             xml |-> [s.xml EXCEPT !.undoStack = Append(s.xml.undoStack, last),
                                   !.modified = TRUE],
             heap |-> s.heap]

(***************************************************************************)
(* parseXML over the decoder's tokens.                                     *)
(***************************************************************************)
StartElement(name, attrs) == [type |-> "start", name |-> name, attrs |-> attrs, data |-> <<>>]
EndElement == [type |-> "end", name |-> "", attrs |-> <<>>, data |-> <<>>]
CharData(data) == [type |-> "chardata", name |-> "", attrs |-> <<>>, data |-> data]
Comment == [type |-> "comment", name |-> "", attrs |-> <<>>, data |-> <<>>]
Attr(name, value) == [Name |-> name, Value |-> value]

AttrNames(attrs) == {attrs[i].Name : i \in 1..Len(attrs)}

\* node.attrIndex[name] = idx for every attribute in turn: the last one wins.
AttrIndexOf(attrs) ==
    [k \in AttrNames(attrs) |->
        (CHOOSE i \in 1..Len(attrs) :
            attrs[i].Name = k /\ \A j \in (i + 1)..Len(attrs) : attrs[j].Name # k) - 1]

\* node.ID: the value of the last attribute named id, "" without one.
IDOf(attrs) ==
    IF "id" \in AttrNames(attrs) THEN attrs[AttrIndexOf(attrs)["id"] + 1].Value ELSE ""

ParseStart == [heap |-> [k \in {} |-> Nil], stack |-> <<>>, root |-> Nil, ids |-> {}, err |-> ""]

ParseToken(st, tok) ==
    IF tok.type = "start"
    THEN LET id == IDOf(tok.attrs)
             n == FreshAddrs(st.heap, 1)[1]
             node == [Tag |-> tok.name, ID |-> id, Attributes |-> tok.attrs,
                      attrIndex |-> AttrIndexOf(tok.attrs), Text |-> <<>>,
                      Children |-> <<>>, Parent |-> Nil]
         IN IF id = "" THEN [st EXCEPT !.err = "Parse"]
            ELSE IF id \in st.ids THEN [st EXCEPT !.err = "DuplicateId"]
            ELSE IF Len(st.stack) = 0
            THEN [st EXCEPT !.heap = (n :> node) @@ st.heap, !.root = n,
                            !.ids = st.ids \cup {id}, !.stack = <<n>>]
            ELSE LET parent == st.stack[Len(st.stack)]
                 IN IF TrimSpace(st.heap[parent].Text) # <<>>
                    THEN [st EXCEPT !.err = "MixedContent", !.ids = st.ids \cup {id}]
                    ELSE [st EXCEPT
                            !.heap = (n :> [node EXCEPT !.Parent = parent]) @@
                                     [st.heap EXCEPT ![parent].Children =
                                          Append(st.heap[parent].Children, n)],
                            !.ids = st.ids \cup {id},
                            !.stack = Append(st.stack, n)]
    ELSE IF tok.type = "end"
    THEN IF Len(st.stack) = 0 THEN [st EXCEPT !.err = "Parse"]
         ELSE [st EXCEPT !.stack = SliceTo(st.stack, Len(st.stack) - 1)]
    ELSE IF tok.type = "chardata"
    THEN IF Len(st.stack) = 0 THEN st
         ELSE LET current == st.stack[Len(st.stack)]
              IN IF TrimSpace(tok.data) = <<>> THEN st
                 ELSE IF Len(st.heap[current].Children) > 0
                 THEN [st EXCEPT !.err = "MixedContent"]
                 ELSE IF TrimSpace(st.heap[current].Text) = <<>>
                 THEN [st EXCEPT !.heap[current].Text = TrimSpace(tok.data)]
                 ELSE [st EXCEPT !.heap[current].Text =
                                    st.heap[current].Text \o <<SPACE>> \o TrimSpace(tok.data)]
    ELSE st

RECURSIVE ParseTokens(_, _)
ParseTokens(st, toks) ==
    IF toks = <<>> \/ st.err # "" THEN st
    ELSE ParseTokens(ParseToken(st, toks[1]), Tail(toks))

\* parseXML(reader): [err, heap, root]
parseXML(toks) ==
    LET st == ParseTokens(ParseStart, toks)
    IN IF st.err # "" THEN [err |-> st.err, heap |-> st.heap, root |-> Nil]
       ELSE IF st.root = Nil THEN [err |-> "Parse", heap |-> st.heap, root |-> Nil]
       ELSE [err |-> "", heap |-> st.heap, root |-> st.root]

\* ParseXMLEditor(path, data): [err, xml, heap]
ParseXMLEditor(toks) ==
    LET p == parseXML(toks)
    IN IF p.err # "" THEN [err |-> p.err, xml |-> Nil, heap |-> p.heap]
       ELSE LET e == NewXMLEditor(p.heap, p.root, FALSE)
            IN [err |-> "", xml |-> e.xml, heap |-> e.heap]

(***************************************************************************)
(* Inputs of the XML buffer.                                               *)
(***************************************************************************)
XmlTags == {"t"}
XmlIds == {"root", "a", "b"}
XmlTexts == {<<>>, <<SPACE>>, <<"x">>}
XmlTextArgs == {NoText, SomeText(<<"x">>)}

\* The documents Load may find on disk, as the decoder's token streams.
ParseDocs ==
    { \* <r id="root"><a id="a"><b k="v" id="b">x</b></a></r>
      <<StartElement("r", <<Attr("id", "root")>>),
        StartElement("a", <<Attr("id", "a")>>),
        StartElement("b", <<Attr("k", "v"), Attr("id", "b")>>),
        CharData(<<"x">>), EndElement, EndElement, EndElement>>,
      \* <root id="root" log="TRUE"> <a id="a"></a> <b id="b"> x<!-- -->x </b></root>
      <<StartElement("root", <<Attr("id", "root"), Attr("log", "TRUE")>>),
        CharData(<<SPACE>>),
        StartElement("a", <<Attr("id", "a")>>), EndElement,
        CharData(<<SPACE>>),
        StartElement("b", <<Attr("id", "b")>>),
        CharData(<<SPACE, "x">>), Comment, CharData(<<"x", SPACE>>), EndElement,
        EndElement>>,
      \* text before a child, text after a child, no id, an id twice: all rejected
      <<StartElement("root", <<Attr("id", "root")>>), CharData(<<"x">>),
        StartElement("a", <<Attr("id", "a")>>), EndElement, EndElement>>,
      <<StartElement("root", <<Attr("id", "root")>>),
        StartElement("a", <<Attr("id", "a")>>), EndElement,
        CharData(<<"x">>), EndElement>>,
      <<StartElement("root", <<Attr("k", "v")>>), EndElement>>,
      <<StartElement("root", <<Attr("id", "a")>>),
        StartElement("a", <<Attr("id", "a")>>), EndElement, EndElement>> }

XmlEditOps == {"insert-before", "append-child", "edit-id", "edit-text", "delete-element"}

\* before := cloneTree(e.root, nil), the first statement of execute.
XmlBefore == cloneTree(heap, xml.root, Nil)

\* What the observers record of a call that returned r = [err, xml, heap].
XmlRecord(op, r, c) ==
    /\ xml' = c.xml
    /\ heap' = c.heap
    /\ xcall' = [op |-> IF r.err = "" THEN op ELSE "", err |-> r.err # ""]
    /\ xmon' = IF r.err # "" THEN xmon
               ELSE IF op = "undo" THEN AfterUndo(xmon)
               ELSE IF op = "redo" THEN AfterRedo(xmon)
               ELSE AfterEdit(xmon, op, TreeVal(heap, xml.root), TreeVal(c.heap, c.xml.root))
    /\ UNCHANGED <<textVars, wsVars>>

\* One XMLEditor editing call with result res = [err, xml, heap].
XmlStep(op, res) ==
    \E r \in {res} :
        /\ r.err # "" \/
           (/\ Cardinality(TreeNodes(r.heap, r.xml.root)) <= MaxNodes
            /\ Len(xml.undoStack) < MaxUndo)
        /\ \E c \in {Settle(r.xml, r.heap)} : XmlRecord(op, r, c)

XmlInsertBefore ==
    \E before \in {XmlBefore} :
    \E tag \in XmlTags, newID \in XmlIds, targetID \in XmlIds, t \in XmlTextArgs :
        XmlStep("insert-before",
                XmlExecute(xml, "insert-before", before,
                           InsertBeforeMutate(before.heap, xml.index, tag, newID, targetID, t)))

XmlAppendChild ==
    \E before \in {XmlBefore} :
    \E tag \in XmlTags, newID \in XmlIds, parentID \in XmlIds, t \in XmlTextArgs :
        XmlStep("append-child",
                XmlExecute(xml, "append-child", before,
                           AppendChildMutate(before.heap, xml.index, tag, newID, parentID, t)))

XmlEditID ==
    \E before \in {XmlBefore} :
    \E oldID \in XmlIds, newID \in XmlIds :
        XmlStep("edit-id",
                XmlExecute(xml, "edit-id", before,
                           EditIDMutate(before.heap, xml.index, oldID, newID)))

XmlEditText ==
    \E before \in {XmlBefore} :
    \E elementID \in XmlIds, s \in XmlTexts :
        XmlStep("edit-text",
                XmlExecute(xml, "edit-text", before,
                           EditTextMutate(before.heap, xml.index, elementID, s)))

XmlDeleteElement ==
    \E before \in {XmlBefore} :
    \E elementID \in XmlIds :
        XmlStep("delete-element",
                XmlExecute(xml, "delete-element", before,
                           DeleteElementMutate(before.heap, xml.index, elementID)))

XmlUndo ==
    \E r \in {XmlUndoApply(xml, heap)} :
        \E c \in {Settle(r.xml, r.heap)} : XmlRecord("undo", r, c)

XmlRedo ==
    \E r \in {XmlRedoApply(xml, heap)} :
        \E c \in {Settle(r.xml, r.heap)} : XmlRecord("redo", r, c)

\* The editor Init builds (modified) or Load parses (not modified).
XmlStart ==
    /\ \/ \E withLog \in BOOLEAN :
            LET d == NewDefaultXMLDocument(withLog)
                e == NewXMLEditor(d.heap, d.addr, TRUE)
                c == Collect(e.xml, e.heap)
            IN xml = c.xml /\ heap = c.heap
       \/ \E toks \in ParseDocs :
            LET e == ParseXMLEditor(toks)
            IN /\ e.err = ""
               /\ LET c == Collect(e.xml, e.heap)
                  IN xml = c.xml /\ heap = c.heap
    /\ xcall = [op |-> "new", err |-> FALSE]
    /\ xmon = NoRun

\* The XML buffer the other specifications leave alone.
XmlIdle ==
    /\ LET d == NewDefaultXMLDocument(FALSE)
           e == NewXMLEditor(d.heap, d.addr, TRUE)
       IN xml = e.xml /\ heap = e.heap
    /\ xcall = [op |-> "new", err |-> FALSE]
    /\ xmon = NoRun

(***************************************************************************)
(* Paths.  A path is [abs, segs]: whether it starts at the root, and its   *)
(* elements; an element is the sequence of its dot-separated parts with    *)
(* the dots themselves, so "a.txt" is <<"a", ".", "txt">>, "." is <<".">>  *)
(* and ".." is <<".", ".">>.  The empty string is the relative path with   *)
(* no elements.                                                            *)
(***************************************************************************)
Dot == <<".">>
DotDot == <<".", ".">>

EmptyPath == [abs |-> FALSE, segs |-> <<>>]

RelPath(segs) == [abs |-> FALSE, segs |-> segs]
AbsPath(segs) == [abs |-> TRUE, segs |-> segs]

IsAbs(p) == p.abs

RECURSIVE CleanSegs(_, _, _)
\* filepath.Clean over the elements: "." goes, ".." takes the element before it
\* away (at the root it just goes, at the start of a relative path it stays).
CleanSegs(rooted, done, rest) ==
    IF rest = <<>> THEN done
    ELSE LET s == rest[1]
         IN IF s = Dot THEN CleanSegs(rooted, done, Tail(rest))
            ELSE IF s = DotDot
            THEN IF done # <<>> /\ done[Len(done)] # DotDot
                 THEN CleanSegs(rooted, SliceTo(done, Len(done) - 1), Tail(rest))
                 ELSE IF rooted THEN CleanSegs(rooted, done, Tail(rest))
                 ELSE CleanSegs(rooted, Append(done, s), Tail(rest))
            ELSE CleanSegs(rooted, Append(done, s), Tail(rest))

\* filepath.Clean: the empty result of a relative path is "."
Clean(p) ==
    LET segs == CleanSegs(p.abs, <<>>, p.segs)
    IN IF ~p.abs /\ segs = <<>> THEN [abs |-> FALSE, segs |-> <<Dot>>]
       ELSE [abs |-> p.abs, segs |-> segs]

\* filepath.Join(a, b): empty elements are ignored, the result is cleaned.
Join(a, b) ==
    IF a = EmptyPath /\ b = EmptyPath THEN EmptyPath
    ELSE IF a = EmptyPath THEN Clean(b)
    ELSE Clean([abs |-> a.abs, segs |-> a.segs \o b.segs])

\* The directory the workspace is built on; main passes os.Getwd().
BaseDir == AbsPath(<< <<"w">> >>)

\* filepath.Abs in a process whose working directory is wd
AbsIn(wd, p) == IF IsAbs(p) THEN Clean(p) ELSE Join(wd, p)

\* filepath.Abs of a path that is absolute, or in the process main starts,
\* whose working directory is the base directory
Abs(p) == AbsIn(BaseDir, p)

\* filepath.Dir and filepath.Base of a cleaned absolute path
Dir(p) == IF p.segs = <<>> THEN p ELSE [p EXCEPT !.segs = SliceTo(p.segs, Len(p.segs) - 1)]
Base(p) == IF p.segs = <<>> THEN <<>> ELSE p.segs[Len(p.segs)]

\* filepath.Ext: the suffix of the last element that starts at its last dot.
Ext(p) ==
    LET name == Base(p)
        dots == {i \in 1..Len(name) : name[i] = "."}
    IN IF dots = {} THEN <<>>
       ELSE SubSeq(name, CHOOSE i \in dots : \A j \in dots : j <= i, Len(name))

\* strings.ToLower, on the parts the inputs hold.
ToLower(s) == [i \in 1..Len(s) |-> IF s[i] = "XML" THEN "xml" ELSE s[i]]

\* resolvePath(path): [err, abs]
resolvePath(path) ==
    IF path = EmptyPath THEN [err |-> TRUE, abs |-> EmptyPath]
    ELSE [err |-> FALSE,
          abs |-> Abs(IF ~IsAbs(path) THEN Join(BaseDir, path) ELSE path)]

\* LogFilePath(source): dir/.name.log
LogFilePath(source) ==
    LET abs == Abs(source)
    IN Join(Dir(abs), RelPath(<< <<".">> \o Base(abs) \o <<".", "log">> >>))

(***************************************************************************)
(* The file system: a function from absolute paths to what is there.  The  *)
(* bytes of a file are kept in the form they were written in: the units of *)
(* a text, or the tokens the XML decoder reads from a document.            *)
(***************************************************************************)
NoEntry == [kind |-> "none", form |-> "", units |-> <<>>, toks |-> <<>>]
DirEntry == [kind |-> "dir", form |-> "", units |-> <<>>, toks |-> <<>>]
TextFile(units) == [kind |-> "file", form |-> "text", units |-> units, toks |-> <<>>]
XmlFile(toks) == [kind |-> "file", form |-> "xml", units |-> <<>>, toks |-> toks]

\* os.Stat
Stat(d, p) == IF p \in DOMAIN d THEN d[p] ELSE NoEntry

RECURSIVE UnderFile(_, _)
\* os.Stat failing with ENOTDIR: an element of p before the last is a regular file.
UnderFile(d, p) ==
    p.segs # <<>> /\ (Stat(d, Dir(p)).kind = "file" \/ UnderFile(d, Dir(p)))

\* errors.Is(statErr, os.ErrNotExist): nothing is at p and its directory can be searched.
IsNotExist(d, p) == Stat(d, p).kind = "none" /\ ~UnderFile(d, p)

RECURSIVE MkdirAll(_, _)
\* os.MkdirAll(p): [err, disk]
MkdirAll(d, p) ==
    IF Stat(d, p).kind = "dir" THEN [err |-> FALSE, disk |-> d]
    ELSE IF Stat(d, p).kind = "file" \/ p.segs = <<>> THEN [err |-> TRUE, disk |-> d]
    ELSE LET up == MkdirAll(d, Dir(p))
         IN IF up.err THEN up
            ELSE [err |-> FALSE, disk |-> (p :> DirEntry) @@ up.disk]

\* os.WriteFile(p, data): [err, disk]
WriteFile(d, p, entry) ==
    IF Stat(d, p).kind = "dir" \/ Stat(d, Dir(p)).kind # "dir"
    THEN [err |-> TRUE, disk |-> d]
    ELSE [err |-> FALSE, disk |-> (p :> entry) @@ d]

\* What the decoder reads from a file: a text without markup is character data.
Decode(entry) ==
    IF entry.form = "xml" THEN entry.toks
    ELSE IF entry.units = <<>> THEN <<>>
    ELSE <<CharData(entry.units)>>

\* ---- XMLEditor.Content: the document as the tokens a decoder reads back ----
ProcInst == [type |-> "procinst", name |-> "xml", attrs |-> <<>>, data |-> <<>>]

\* xml.EscapeText followed by the decoder's unescaping: an invalid byte is
\* written as U+FFFD, every other unit comes back as it was.
EscapeText(s) == [i \in 1..Len(s) |-> IF s[i] = InvalidByte THEN ReplacementChar ELSE s[i]]

formatAttributes(attrs) ==
    [i \in 1..Len(attrs) |-> [Name |-> attrs[i].Name, Value |-> attrs[i].Value]]

RECURSIVE writeNode(_, _)
RECURSIVE writeNodes(_, _)
\* writeNode(buf, node, depth); the indentation and the line ends are white space.
writeNode(h, a) ==
    IF a = Nil THEN <<>>
    ELSE IF Len(h[a].Children) = 0
    THEN IF TrimSpace(h[a].Text) = <<>>
         THEN <<StartElement(h[a].Tag, formatAttributes(h[a].Attributes)), EndElement,
                CharData(<<SPACE>>)>>
         ELSE <<StartElement(h[a].Tag, formatAttributes(h[a].Attributes)),
                CharData(EscapeText(h[a].Text)), EndElement, CharData(<<SPACE>>)>>
    ELSE <<StartElement(h[a].Tag, formatAttributes(h[a].Attributes)), CharData(<<SPACE>>)>>
         \o writeNodes(h, h[a].Children) \o <<EndElement, CharData(<<SPACE>>)>>
writeNodes(h, cs) ==
    IF cs = <<>> THEN <<>> ELSE writeNode(h, cs[1]) \o writeNodes(h, Tail(cs))

\* XMLEditor.Content(): [err, toks]
XmlContent(x, h) ==
    IF x.root = Nil THEN [err |-> TRUE, toks |-> <<>>]
    ELSE [err |-> FALSE, toks |-> <<ProcInst, CharData(<<SPACE>>)>> \o writeNode(h, x.root)]

(***************************************************************************)
(* An open buffer: [type, inst, ed].  inst tells the buffer objects made   *)
(* for one path apart; ed is the TextEditor, or the XMLEditor with the     *)
(* heap its trees live in.                                                 *)
(***************************************************************************)
TextBuffer(inst, e) == [type |-> "text", inst |-> inst, ed |-> e]
XmlBuffer(inst, e) == [type |-> "xml", inst |-> inst, ed |-> [xml |-> e.xml, heap |-> e.heap]]

IsModified(b) == IF b.type = "text" THEN b.ed.modified ELSE b.ed.xml.modified

SetModified(b, value) ==
    IF b.type = "text" THEN [b EXCEPT !.ed.modified = value]
    ELSE [b EXCEPT !.ed.xml.modified = value]

\* Editor.Content() as the file it makes: [err, entry]
Content(b) ==
    IF b.type = "text" THEN [err |-> FALSE, entry |-> TextFile(TextContent(b.ed))]
    ELSE LET c == XmlContent(b.ed.xml, b.ed.heap)
         IN [err |-> c.err, entry |-> XmlFile(c.toks)]

(***************************************************************************)
(* The statistics tracker: the durations accumulated per path, the path    *)
(* whose timer runs, the time it was started at, and the reading of the    *)
(* tracker's clock.                                                        *)
(***************************************************************************)
NewTracker ==
    [active |-> EmptyPath, started |-> 0, durations |-> [p \in {} |-> 0], clock |-> 0]

\* durations[path], zero for a path without an entry.
Accrued(s, path) == IF path \in DOMAIN s.durations THEN s.durations[path] ELSE 0

\* durations with now - started added to the entry of path.
Flushed(s, path) == (path :> Accrued(s, path) + (s.clock - s.started)) @@ s.durations

StatsSwitch(s, prev, next) ==
    LET d == IF prev # EmptyPath /\ prev = s.active THEN Flushed(s, prev) ELSE s.durations
    IN IF next # EmptyPath
       THEN [s EXCEPT !.durations = IF next \in DOMAIN d THEN d ELSE (next :> 0) @@ d,
                      !.active = next,
                      !.started = s.clock]
       ELSE [s EXCEPT !.durations = d, !.active = EmptyPath]

StatsClose(s, path) ==
    LET d == IF path = s.active /\ path # EmptyPath THEN Flushed(s, path) ELSE s.durations
    IN [s EXCEPT !.durations = [p \in DOMAIN d \ {path} |-> d[p]],
                 !.active = IF path = s.active THEN EmptyPath ELSE s.active]

\* StopAll: the timer of the active path is flushed and goes on from now.
StatsStopAll(s) ==
    IF s.active = EmptyPath THEN s
    ELSE [s EXCEPT !.durations = Flushed(s, s.active), !.started = s.clock]

\* Duration(path)
StatsDuration(s, path) ==
    Accrued(s, path) + (IF path = s.active /\ path # EmptyPath THEN s.clock - s.started ELSE 0)

(***************************************************************************)
(* The logging manager.                                                    *)
(***************************************************************************)
NewManager == [enabled |-> {}, sessionStarted |-> {}]

\* "session start at <time>", the time left out.
SessionStart == <<"session start at">>

\* Manager.append, lines 139-151: the line goes to the end of the file at logPath.
LogWrite(d, logPath, line) ==
    LET made == MkdirAll(d, Dir(logPath))
        old == Stat(made.disk, logPath)
    IN IF made.err \/ old.kind = "dir" THEN [err |-> TRUE, disk |-> d]
       ELSE [err |-> FALSE,
             disk |-> (logPath :> TextFile(old.units \o TrimSpace(line) \o <<LF>>))
                      @@ made.disk]

\* Manager.append(sourcePath, line): [err, disk]
LogAppend(d, sourcePath, line) == LogWrite(d, LogFilePath(sourcePath), line)

\* Manager.Enable marking the session as started whatever the append gave.
EnableSessionMarked(W, abs, a) ==
    [W EXCEPT !.logger = [enabled |-> @.enabled \cup {abs},
                          sessionStarted |-> @.sessionStarted \cup {abs}],
              !.disk = IF a.err THEN @ ELSE a.disk]

\* Manager.Enable, lines 57-64: a is the outcome of writing the session start.
EnableSession(W, abs, a) ==
    IF a.err THEN [W EXCEPT !.logger.enabled = @ \cup {abs}]
    ELSE [W EXCEPT !.logger = [enabled |-> @.enabled \cup {abs},
                               sessionStarted |-> @.sessionStarted \cup {abs}],
                   !.disk = a.disk]

\* Manager.Enable writing a session start on every call.
EnableEveryTime(W, path) ==
    EnableSession(W, AbsIn(W.cwd, path), LogAppend(W.disk, AbsIn(W.cwd, path), SessionStart))

\* Manager.Enable(path) on the world W: the manager and the log file change.
Enable(W, path) ==
    LET abs == AbsIn(W.cwd, path)
    IN IF abs \in W.logger.sessionStarted
       THEN [W EXCEPT !.logger.enabled = @ \cup {abs}]
       ELSE EnableSession(W, abs, LogAppend(W.disk, abs, SessionStart))

\* Manager.Restore enabling nothing.
LoggerRestoreNothing(W, paths) == W

RECURSIVE LoggerRestore(_, _)
\* Manager.Restore(paths)
LoggerRestore(W, paths) ==
    IF paths = <<>> THEN W ELSE LoggerRestore(Enable(W, paths[1]), Tail(paths))

\* Manager.Disable(path)
Disable(W, path) == [W EXCEPT !.logger.enabled = @ \ {AbsIn(W.cwd, path)}]

\* events.Event: Type, Raw and File; Timestamp is read through Format(timeLayout) only.
EventCommandExecuted == "command_executed"

Event(type, raw, file) == [Type |-> type, Raw |-> raw, File |-> file]

\* evt.Timestamp.Format(timeLayout)
Stamp == <<"20060102", SPACE, "15:04:05">>

\* fmt.Sprintf("%s %s", evt.Timestamp.Format(timeLayout), evt.Raw)
EventLine(evt) == Stamp \o <<SPACE>> \o evt.Raw

\* Manager.Handle with the check of m.enabled left out.
HandleAnyFile(W, evt) ==
    IF evt.Type # EventCommandExecuted \/ evt.File = EmptyPath THEN W
    ELSE [W EXCEPT !.disk = LogAppend(W.disk, evt.File, EventLine(evt)).disk]

\* Manager.Handle(evt): a failed append is reported on the console only.
Handle(W, evt) ==
    IF evt.Type # EventCommandExecuted \/ evt.File = EmptyPath THEN W
    ELSE IF evt.File \notin W.logger.enabled THEN W
    ELSE [W EXCEPT !.disk = LogAppend(W.disk, evt.File, EventLine(evt)).disk]

(***************************************************************************)
(* The event bus and the observers subscribed to it.                       *)
(***************************************************************************)
Observers == {"obs1", "obs2"}

\* NewBus, and observers that have received nothing.
NewBus == [listeners |-> <<>>, received |-> [o \in Observers |-> <<>>], delivered |-> <<>>]

\* Bus.Subscribe(listener)
Subscribe(b, listener) == [b EXCEPT !.listeners = Append(@, listener)]

\* mockObserver.Handle(e); delivered is the order of the Handle calls of all observers.
ObserverHandle(b, o, e) ==
    [b EXCEPT !.received[o] = Append(@, e),
              !.delivered = Append(@, [to |-> o, e |-> e])]

RECURSIVE PublishTo(_, _, _)
\* Bus.Publish, lines 53-55: the loop over the listeners ls still to call.
PublishTo(b, ls, e) ==
    IF ls = <<>> THEN b
    ELSE PublishTo(ObserverHandle(b, ls[1], e), Tail(ls), e)

\* Bus.Publish calling a listener once however often it is subscribed.
PublishFirstOnly(b, e) == PublishTo(b, Dedup(b.listeners, {}), e)

\* Bus.Publish(event)
Publish(b, e) == PublishTo(b, b.listeners, e)

(***************************************************************************)
(* The workspace.  W is the world a call runs in: the Workspace's editors, *)
(* active and history, its tracker and logger, the file system and the     *)
(* persisted state file.  A call gives [err, W, ret], ret the buffer it    *)
(* returns.                                                                *)
(***************************************************************************)
NoBuffer == [path |-> EmptyPath, inst |-> -1]
BufferAt(W, abs) == [path |-> abs, inst |-> W.editors[abs].inst]

Fail(W) == [err |-> TRUE, W |-> W, ret |-> NoBuffer]
Ok(W, ret) == [err |-> FALSE, W |-> W, ret |-> ret]

RECURSIVE removeFromHistory(_, _)
removeFromHistory(hist, path) ==
    IF hist = <<>> THEN <<>>
    ELSE IF hist[1] # path
    THEN <<hist[1]>> \o removeFromHistory(Tail(hist), path)
    ELSE removeFromHistory(Tail(hist), path)

\* touchHistory putting the path in front without taking its old entry out.
touchHistoryKeepOld(W, path) ==
    IF path = EmptyPath THEN W
    ELSE [W EXCEPT !.history = <<path>> \o W.history]

touchHistory(W, path) ==
    IF path = EmptyPath THEN W
    ELSE [W EXCEPT !.history = <<path>> \o removeFromHistory(W.history, path)]

\* setActive changing the active path without a word to the tracker.
setActiveSilent(W, path) ==
    IF W.active = path THEN W
    ELSE LET W1 == [W EXCEPT !.active = path]
         IN IF path # EmptyPath THEN touchHistory(W1, path) ELSE W1

\* setActive leaving the history as it is.
setActiveNoTouch(W, path) ==
    IF W.active = path THEN W
    ELSE [W EXCEPT !.active = path,
                   !.stats = StatsSwitch(W.stats, W.active, path)]

\* setActive dropping the statistics entry of the buffer it leaves.
setActiveDropPrev(W, path) ==
    IF W.active = path THEN W
    ELSE LET W1 == [W EXCEPT !.active = path,
                             !.stats = StatsSwitch(StatsClose(W.stats, W.active), EmptyPath, path)]
         IN IF path # EmptyPath THEN touchHistory(W1, path) ELSE W1

\* setActive signalling the tracker without the previous path.
setActiveNoPrev(W, path) ==
    IF W.active = path THEN W
    ELSE LET W1 == [W EXCEPT !.active = path,
                             !.stats = StatsSwitch(W.stats, EmptyPath, path)]
         IN IF path # EmptyPath THEN touchHistory(W1, path) ELSE W1

setActive(W, path) ==
    IF W.active = path THEN W
    ELSE LET W1 == [W EXCEPT !.active = path,
                             !.stats = StatsSwitch(W.stats, W.active, path)]
         IN IF path # EmptyPath THEN touchHistory(W1, path) ELSE W1

\* "# log"
LogMarker == <<"#", SPACE, "l", "o", "g">>

\* RootAttributes()["log"]: the value of the last attribute of that name, or "".
RootLogAttribute(x, h) ==
    LET attrs == h[x.root].Attributes
        at == {i \in 1..Len(attrs) : attrs[i].Name = "log"}
    IN IF x.root = Nil \/ at = {} THEN ""
       ELSE attrs[CHOOSE i \in at : \A j \in at : j <= i].Value

\* strings.EqualFold(s, "true")
EqualFoldTrue(s) == s \in {"true", "TRUE", "True"}

\* applyAutoLog, lines 485-495: the buffer asks for a log.
HasLogMarker(b) ==
    IF b.type = "text"
    THEN Len(b.ed.lines) > 0 /\ TrimSpace(b.ed.lines[1]) = LogMarker
    ELSE EqualFoldTrue(RootLogAttribute(b.ed.xml, b.ed.heap))

\* applyAutoLog looking at text buffers alone.
applyAutoLogTextOnly(W, abs) ==
    IF W.editors[abs].type = "text" /\ HasLogMarker(W.editors[abs]) THEN Enable(W, abs) ELSE W

applyAutoLog(W, abs) == IF HasLogMarker(W.editors[abs]) THEN Enable(W, abs) ELSE W

\* The inst of the next buffer object made for abs.
NewInst(W, abs) == IF abs \in DOMAIN W.editors THEN 1 - W.editors[abs].inst ELSE 0

Register(W, abs, b) == [W EXCEPT !.editors = (abs :> b) @@ W.editors]

\* return ed, nil: the buffer registered for abs.
OkAt(W, abs) == Ok(W, BufferAt(W, abs))

\* Load, lines 136-139: register the new buffer, activate it, apply its log marker.
LoadDone(W, abs, b) == OkAt(applyAutoLog(setActive(Register(W, abs, b), abs), abs), abs)

\* Load, lines 107-113: the outcome of ParseXMLEditor.
LoadParsed(W, abs, parsed) ==
    IF parsed.err # "" THEN Fail(W)
    ELSE LoadDone(W, abs, XmlBuffer(NewInst(W, abs), parsed))

\* Load taking a missing file for an unmodified empty buffer.
LoadNewClean(W, abs) ==
    LET entry == Stat(W.disk, abs)
    IN IF ToLower(Ext(abs)) = <<".", "xml">>
       THEN IF entry.kind # "file" THEN Fail(W)
            ELSE LoadParsed(W, abs, ParseXMLEditor(Decode(entry)))
       ELSE IF entry.kind = "dir" \/ UnderFile(W.disk, abs) THEN Fail(W)
       ELSE LoadDone(W, abs,
                     TextBuffer(NewInst(W, abs),
                                NewTextEditor(IF entry.kind = "none" THEN <<>>
                                              ELSE splitLines(entry.units),
                                              FALSE)))

\* Load, lines 92-139: abs is not open.  A stat error other than ErrNotExist
\* (a path under a regular file) is returned as it is.
LoadNew(W, abs) ==
    LET entry == Stat(W.disk, abs)
    IN IF ToLower(Ext(abs)) = <<".", "xml">>
       THEN IF entry.kind # "file" THEN Fail(W)
            ELSE LoadParsed(W, abs, ParseXMLEditor(Decode(entry)))
       ELSE IF entry.kind = "dir" \/ UnderFile(W.disk, abs) THEN Fail(W)
       ELSE LoadDone(W, abs,
                     TextBuffer(NewInst(W, abs),
                                NewTextEditor(IF entry.kind = "none" THEN <<>>
                                              ELSE splitLines(entry.units),
                                              entry.kind = "none")))

\* Load opening the file again although its buffer is open.
LoadReopen(W, path) ==
    LET r == resolvePath(path)
    IN IF r.err THEN Fail(W) ELSE LoadNew(W, r.abs)

Load(W, path) ==
    LET r == resolvePath(path)
    IN IF r.err THEN Fail(W)
       ELSE IF r.abs \in DOMAIN W.editors
       THEN OkAt(setActive(W, r.abs), r.abs)
       ELSE LoadNew(W, r.abs)

\* Init enabling the log before it looks at the kind.
InitEnableFirst(W, kind, path, withLog) ==
    LET r == resolvePath(path)
        abs == r.abs
    IN IF r.err THEN Fail(W)
       ELSE IF Stat(W.disk, abs).kind # "none" THEN Fail(W)
       ELSE IF ToLower(kind) \notin {<<"text">>, <<"xml">>}
       THEN Fail(IF withLog THEN Enable(W, abs) ELSE W)
       ELSE LET b == IF ToLower(kind) = <<"text">>
                     THEN TextBuffer(NewInst(W, abs),
                                     NewTextEditor(IF withLog THEN <<LogMarker>> ELSE <<>>, TRUE))
                     ELSE LET d == NewDefaultXMLDocument(withLog)
                          IN XmlBuffer(NewInst(W, abs), NewXMLEditor(d.heap, d.addr, TRUE))
                W1 == setActive(Register(W, abs, b), abs)
            IN OkAt(IF withLog THEN Enable(W1, abs) ELSE W1, abs)

Init(W, kind, path, withLog) ==
    LET r == resolvePath(path)
        abs == r.abs
    IN IF r.err THEN Fail(W)
       ELSE IF Stat(W.disk, abs).kind # "none" THEN Fail(W)
       ELSE IF ToLower(kind) \notin {<<"text">>, <<"xml">>} THEN Fail(W)
       ELSE LET b == IF ToLower(kind) = <<"text">>
                     THEN TextBuffer(NewInst(W, abs),
                                     NewTextEditor(IF withLog THEN <<LogMarker>> ELSE <<>>, TRUE))
                     ELSE LET d == NewDefaultXMLDocument(withLog)
                          IN XmlBuffer(NewInst(W, abs), NewXMLEditor(d.heap, d.addr, TRUE))
                W1 == setActive(Register(W, abs, b), abs)
            IN OkAt(IF withLog THEN Enable(W1, abs) ELSE W1, abs)

\* saveEditor(ed): [err, disk]
saveEditor(W, abs) ==
    LET made == MkdirAll(W.disk, Dir(abs))
        c == Content(W.editors[abs])
    IN IF made.err \/ c.err THEN [err |-> TRUE, disk |-> W.disk]
       ELSE LET wr == WriteFile(made.disk, abs, c.entry)
            \* a failed write leaves the directories MkdirAll made
            IN IF wr.err THEN [err |-> TRUE, disk |-> made.disk] ELSE wr

\* saveEditor followed by ed.SetModified(false)
Saved(W, abs, d) ==
    [W EXCEPT !.disk = d, !.editors[abs] = SetModified(W.editors[abs], FALSE)]

\* The path a call with an optional path is about: "" means the active buffer.
Target(W, path) == IF path = EmptyPath THEN W.active ELSE path

Save(W, path) ==
    LET r == resolvePath(Target(W, path))
    IN IF r.err \/ r.abs \notin DOMAIN W.editors THEN Fail(W)
       ELSE LET s == saveEditor(W, r.abs)
            IN IF s.err THEN Fail([W EXCEPT !.disk = s.disk])
               ELSE Ok(Saved(W, r.abs, s.disk), NoBuffer)

RECURSIVE SaveEach(_, _)
\* SaveAll over the editors in the order the map iteration takes them.
SaveEach(W, order) ==
    IF order = <<>> THEN Ok(W, NoBuffer)
    ELSE LET s == saveEditor(W, order[1])
         IN IF s.err THEN Fail([W EXCEPT !.disk = s.disk])
            ELSE SaveEach(Saved(W, order[1], s.disk), Tail(order))

\* The orders a range over a map can take its keys in.
Orders(S) == {o \in [1..Cardinality(S) -> S] : \A i, j \in DOMAIN o : o[i] = o[j] => i = j}

\* Close picking the oldest entry of the history as the next active buffer.
CloseTailNext(W, abs) ==
    LET W1 == [W EXCEPT !.stats = StatsClose(W.stats, abs),
                        !.editors = [p \in DOMAIN W.editors \ {abs} |-> W.editors[p]],
                        !.history = removeFromHistory(W.history, abs)]
        next == IF W.active = abs
                THEN IF Len(W1.history) > 0 THEN W1.history[Len(W1.history)] ELSE EmptyPath
                ELSE W.active
    IN setActive(W1, next)

\* Close leaving the tracker to the switch that follows.
CloseKeepStats(W, abs) ==
    LET W1 == [W EXCEPT !.editors = [p \in DOMAIN W.editors \ {abs} |-> W.editors[p]],
                        !.history = removeFromHistory(W.history, abs)]
        next == IF W.active = abs
                THEN IF Len(W1.history) > 0 THEN W1.history[1] ELSE EmptyPath
                ELSE W.active
    IN setActive(W1, next)

\* Close once the buffer may go: lines 237-248.
CloseRemove(W, abs) ==
    LET W1 == [W EXCEPT !.stats = StatsClose(W.stats, abs),
                        !.editors = [p \in DOMAIN W.editors \ {abs} |-> W.editors[p]],
                        !.history = removeFromHistory(W.history, abs)]
        next == IF W.active = abs
                THEN IF Len(W1.history) > 0 THEN W1.history[1] ELSE EmptyPath
                ELSE W.active
    IN setActive(W1, next)

\* Close asking the decider for every buffer, modified or not.
CloseAlwaysAsks(W, path, answer) ==
    LET r == resolvePath(Target(W, path))
        abs == r.abs
    IN IF r.err \/ abs \notin DOMAIN W.editors THEN Fail(W)
       ELSE IF answer = "error" THEN Fail(W)
       ELSE IF answer = "yes"
       THEN LET s == saveEditor(W, abs)
            IN IF s.err THEN Fail([W EXCEPT !.disk = s.disk])
               ELSE Ok(CloseRemove(Saved(W, abs, s.disk), abs), NoBuffer)
       ELSE Ok(CloseRemove(W, abs), NoBuffer)

\* Close(path); answer is what the SaveDecider does when it is asked: "yes",
\* "no" or "error", and "absent" when no decider is configured.
Close(W, path, answer) ==
    LET r == resolvePath(Target(W, path))
        abs == r.abs
    IN IF r.err \/ abs \notin DOMAIN W.editors THEN Fail(W)
       ELSE IF IsModified(W.editors[abs]) /\ answer = "error" THEN Fail(W)
       ELSE IF IsModified(W.editors[abs]) /\ answer = "yes"
       THEN LET s == saveEditor(W, abs)
            IN IF s.err THEN Fail([W EXCEPT !.disk = s.disk])
               ELSE Ok(CloseRemove(Saved(W, abs, s.disk), abs), NoBuffer)
       ELSE Ok(CloseRemove(W, abs), NoBuffer)

Edit(W, path) ==
    LET r == resolvePath(path)
    IN IF r.err \/ r.abs \notin DOMAIN W.editors THEN Fail(W)
       ELSE Ok(setActive(W, r.abs), NoBuffer)

ActiveEditor(W) ==
    IF W.active = EmptyPath \/ W.active \notin DOMAIN W.editors THEN Fail(W)
    ELSE Ok(W, BufferAt(W, W.active))

EditorByPath(W, path) ==
    LET r == resolvePath(path)
    IN IF r.err \/ r.abs \notin DOMAIN W.editors THEN Fail(W)
       ELSE Ok(W, BufferAt(W, r.abs))

\* The buffer after a call on its XMLEditor that gave r = [err, xml, heap].
XmlApplied(b, r) ==
    IF r.err # "" THEN [err |-> TRUE, b |-> b]
    ELSE [err |-> FALSE, b |-> [b EXCEPT !.ed = Collect(r.xml, r.heap)]]

\* Editor.Undo / Editor.Redo on a buffer: [err, b]
BufferUndo(b) ==
    IF b.type = "text"
    THEN IF Len(b.ed.undoStack) = 0 THEN [err |-> TRUE, b |-> b]
         ELSE [err |-> FALSE, b |-> [b EXCEPT !.ed = TextUndoApply(b.ed)]]
    ELSE XmlApplied(b, XmlUndoApply(b.ed.xml, b.ed.heap))

BufferRedo(b) ==
    IF b.type = "text"
    THEN IF Len(b.ed.redoStack) = 0 THEN [err |-> TRUE, b |-> b]
         ELSE [err |-> FALSE, b |-> [b EXCEPT !.ed = TextRedoApply(b.ed)]]
    ELSE XmlApplied(b, XmlRedoApply(b.ed.xml, b.ed.heap))

\* The workspace after the call on its active buffer gave r = [err, b].
OnActive(W, r) ==
    IF ActiveEditor(W).err THEN Fail(W)
    ELSE IF r.err THEN Fail(W)
    ELSE Ok([W EXCEPT !.editors[W.active] = r.b], NoBuffer)

Undo(W) == OnActive(W, BufferUndo(W.editors[W.active]))

Redo(W) == OnActive(W, BufferRedo(W.editors[W.active]))

\* AppendChild(tag, newID, parentID, nil) on the tree cloned as before.
AppendChildOn(x, before, tag, newID, parentID) ==
    XmlExecute(x, "append-child", before,
               AppendChildMutate(before.heap, x.index, tag, newID, parentID, NoText))

\* The edit a command makes on the buffer ActiveEditor returns: Append(t) on a
\* text buffer, AppendChild(tag, id, parent, nil) on an XML buffer.
BufferEdit(b, t, tag, newID, parentID) ==
    IF b.type = "text"
    THEN [err |-> FALSE, b |-> [b EXCEPT !.ed = execute(b.ed, "append", appendMutate(b.ed.lines, t))]]
    ELSE XmlApplied(b, AppendChildOn(b.ed.xml, cloneTree(b.ed.heap, b.ed.xml.root, Nil),
                                     tag, newID, parentID))

EditActive(W, t, tag, newID, parentID) ==
    OnActive(W, BufferEdit(W.editors[W.active], t, tag, newID, parentID))

(***************************************************************************)
(* The state keeper and the persisted state <baseDir>/.editor_workspace.   *)
(***************************************************************************)
NoStateFile == [present |-> FALSE, Editors |-> <<>>, Active |-> EmptyPath, Logging |-> <<>>]

\* Manager.ActivePaths(): the enabled paths, sorted; KnownPaths is sorted.
ActivePaths(lg, known) == SelectSeq(known, LAMBDA p : p \in lg.enabled)

\* Persist with the editors taken in the given order.
Persist(W, order, known) ==
    Ok([W EXCEPT !.stats = StatsStopAll(W.stats),
                 !.stateFile = [present |-> TRUE,
                                Editors |-> [i \in 1..Len(order) |->
                                                [Path |-> order[i],
                                                 Modified |-> IsModified(W.editors[order[i]])]],
                                Active |-> W.active,
                                Logging |-> ActivePaths(W.logger, known)]],
       NoBuffer)

\* Restore leaving the modified flag as Load set it.
RestoreEntryAsLoaded(W, entry, l) ==
    IF Stat(W.disk, entry.Path).kind = "none" \/ l.err THEN W ELSE l.W

\* Restore, lines 414-421: one entry, l the outcome of Load(entry.Path).
RestoreEntry(W, entry, l) ==
    IF Stat(W.disk, entry.Path).kind = "none" \/ l.err THEN W
    ELSE [l.W EXCEPT !.editors[l.ret.path] = SetModified(@, entry.Modified)]

RECURSIVE RestoreEditors(_, _)
\* Restore, lines 413-422
RestoreEditors(W, entries) ==
    IF entries = <<>> THEN W
    ELSE RestoreEditors(RestoreEntry(W, entries[1], Load(W, entries[1].Path)), Tail(entries))

\* Restore, lines 423-427
RestoreActive(W, activePath) ==
    IF activePath # EmptyPath /\ activePath \in DOMAIN W.editors
    THEN setActive(W, activePath) ELSE W

Restore(W) ==
    IF ~W.stateFile.present THEN Ok(W, NoBuffer)
    ELSE Ok(LoggerRestore(RestoreActive(RestoreEditors(W, W.stateFile.Editors),
                                        W.stateFile.Active),
                          W.stateFile.Logging),
            NoBuffer)

(***************************************************************************)
(* The dispatcher.  A command line c is kept as it is tokenized: the       *)
(* command word, the number of arguments n, and the arguments by their     *)
(* role (kind, path, text, withLog); raw is the line as it was typed and   *)
(* answer what the console's ConfirmSave returns.  An operation gives      *)
(* [err, W, file], file the targetFile of the command.                     *)
(***************************************************************************)
Refused(W) == [err |-> TRUE, W |-> W, file |-> EmptyPath]

\* The workspace call r was made and, when it succeeded, targetFile set to file.
Did(r, file) == IF r.err THEN Refused(r.W) ELSE [err |-> FALSE, W |-> r.W, file |-> file]

\* ed, _ := d.ws.ActiveEditor(); if ed != nil { targetFile = ed.Path() }
ActivePath(W) == IF ActiveEditor(W).err THEN EmptyPath ELSE W.active

\* Dispatcher.resolveFileArg(args): [err, file]
resolveFileArg(W, c) ==
    IF c.n > 1 THEN [err |-> TRUE, file |-> EmptyPath]
    ELSE IF c.n = 1 THEN [err |-> FALSE, file |-> AbsIn(W.cwd, c.path)]
    ELSE IF ActiveEditor(W).err THEN [err |-> TRUE, file |-> EmptyPath]
    ELSE [err |-> FALSE, file |-> W.active]

\* Dispatcher.requireTextDocument: an error without an active text buffer
requireTextDocument(W) ==
    IF ActiveEditor(W).err THEN TRUE ELSE W.editors[W.active].type # "text"

\* execute, lines 80-446: the case of the command word.
Operation(W, c) ==
    CASE c.cmd = "load" ->
           IF c.n # 1 THEN Refused(W)
           ELSE Did(Load(W, c.path), Load(W, c.path).ret.path)
      [] c.cmd = "save" ->
           IF c.n = 0 THEN Did(Save(W, EmptyPath), ActivePath(W))
           ELSE IF c.n = 1 THEN Did(Save(W, c.path), AbsIn(W.cwd, c.path))
           ELSE Refused(W)
      [] c.cmd = "init" ->
           IF c.n < 2 THEN Refused(W)
           ELSE Did(Init(W, ToLower(c.kind), c.path, c.withLog),
                    Init(W, ToLower(c.kind), c.path, c.withLog).ret.path)
      [] c.cmd = "close" ->
           Did(Close(W, IF c.n > 0 THEN c.path ELSE EmptyPath, c.answer),
               IF c.n > 0 /\ c.path # EmptyPath THEN AbsIn(W.cwd, c.path) ELSE ActivePath(W))
      [] c.cmd = "edit" ->
           IF c.n # 1 THEN Refused(W)
           ELSE Did(Edit(W, c.path), ActivePath(Edit(W, c.path).W))
      [] c.cmd = "undo" -> Did(Undo(W), ActivePath(W))
      [] c.cmd = "redo" -> Did(Redo(W), ActivePath(W))
      [] c.cmd = "append" ->
           IF c.n # 1 \/ requireTextDocument(W) THEN Refused(W)
           ELSE Did(EditActive(W, c.text, "t", "a", "root"), W.active)
      [] c.cmd = "log-on" ->
           IF resolveFileArg(W, c).err THEN Refused(W)
           ELSE Did(Ok(Enable(W, resolveFileArg(W, c).file), NoBuffer), resolveFileArg(W, c).file)
      [] c.cmd = "log-off" ->
           IF resolveFileArg(W, c).err THEN Refused(W)
           ELSE Did(Ok(Disable(W, resolveFileArg(W, c).file), NoBuffer), resolveFileArg(W, c).file)
      [] OTHER -> Refused(W)

\* Workspace.PublishCommand(name, raw, file): bus.Publish hands the event to the
\* logger, the one listener main subscribes.
PublishCommand(W, name, raw, file) == Handle(W, Event(EventCommandExecuted, raw, file))

\* What execute gives: [err, W, ret, file, published], published the events
\* handed to the bus.
Executed(err, W, file, published) ==
    [err |-> err, W |-> W, ret |-> NoBuffer, file |-> file, published |-> published]

\* execute publishing the event before the operation has changed the logger.
ExecutePublishFirst(W, c, o) ==
    IF o.err THEN Executed(TRUE, o.W, EmptyPath, <<>>)
    ELSE Executed(FALSE,
                  [o.W EXCEPT !.disk =
                      PublishCommand([o.W EXCEPT !.logger = W.logger],
                                     c.cmd, TrimSpace(c.raw), o.file).disk],
                  o.file,
                  <<Event(EventCommandExecuted, TrimSpace(c.raw), o.file)>>)

\* Dispatcher.execute(raw), lines 64-452, o the outcome of the operation.
Execute(W, c, o) ==
    IF o.err THEN Executed(TRUE, o.W, EmptyPath, <<>>)
    ELSE Executed(FALSE,
                  PublishCommand(o.W, c.cmd, TrimSpace(c.raw), o.file),
                  o.file,
                  <<Event(EventCommandExecuted, TrimSpace(c.raw), o.file)>>)

(***************************************************************************)
(* Inputs of the workspace.                                                *)
(***************************************************************************)
NameA == <<"a", ".", "txt">>
NameB == <<"b", ".", "xml">>
NameC == <<"c", ".", "txt">>
NameD == <<"d">>

PathA == AbsPath(<< <<"w">>, NameA >>)
PathB == AbsPath(<< <<"w">>, NameB >>)
PathC == AbsPath(<< <<"w">>, NameC >>)

\* The absolute paths a buffer can be opened on, in the order sort.Strings gives.
KnownPaths == <<PathA, PathB, PathC>>

\* What the user types: "", a.txt, ./a.txt, /w/a.txt, b.xml, d/../b.xml, c.txt, d
UserPaths ==
    { EmptyPath,
      RelPath(<<NameA>>), RelPath(<<Dot, NameA>>), PathA,
      RelPath(<<NameB>>), RelPath(<<NameD, DotDot, NameB>>),
      RelPath(<<NameC>>),
      RelPath(<<NameD>>) }

\* init <kind> <path>: the kind that goes with the suffix, or an unknown kind.
InitKinds(path) ==
    IF ToLower(Ext(path)) = <<".", "xml">> THEN {<<"XML">>, <<"pdf">>} ELSE {<<"text">>, <<"pdf">>}

Answers == {"absent", "yes", "no", "error"}

\* /w holds a.txt ("# log", "a") and the directory d.
StartDisk ==
    (AbsPath(<<>>) :> DirEntry) @@ (BaseDir :> DirEntry)
    @@ (AbsPath(<< <<"w">>, NameD >>) :> DirEntry)
    @@ (PathA :> TextFile(LogMarker \o <<LF, "a", LF>>))

\* A state file an earlier session left: a.txt (modified) and c.txt were open.
StartStateFiles ==
    { NoStateFile,
      [present |-> TRUE,
       Editors |-> <<[Path |-> PathC, Modified |-> FALSE], [Path |-> PathA, Modified |-> TRUE]>>,
       Active |-> PathA,
       Logging |-> <<PathA>>] }

\* A path under the regular file a.txt: no log file can be made for it.
PathUnderFile == AbsPath(<< <<"w">>, NameA, <<"x">> >>)

\* The paths logging can be enabled for, in the order sort.Strings gives.
SortedPaths == <<PathA, PathUnderFile, PathB, PathC>>

\* log-on / log-off <file>: a.txt, /w/c.txt, /w/a.txt/x
LogPaths == {RelPath(<<NameA>>), PathC, PathUnderFile}

\* The command lines of the events: x, x with a space after it, x and y on two lines.
Raws == {<<"x">>, <<"x", SPACE>>, <<"x", LF, "y">>}

EventFiles == {EmptyPath, RelPath(<<NameA>>), PathA, PathC, PathUnderFile}

Events ==
    {Event(type, raw, file) : type \in {EventCommandExecuted, "other"},
                              raw \in Raws, file \in EventFiles}

BusEvents ==
    {Event(EventCommandExecuted, <<"x">>, PathA), Event(EventCommandExecuted, <<"x", SPACE>>, PathC)}

NoDeliveries == [published |-> <<>>, due |-> <<>>]

World ==
    [editors |-> editors, active |-> active, history |-> history, disk |-> disk,
     logger |-> logger, stats |-> stats, stateFile |-> stateFile, cwd |-> cwd]

\* No command has run; no goroutine but main's.
NoCommand ==
    [cmd |-> "", args |-> [n |-> 0, path |-> EmptyPath], err |-> FALSE, file |-> EmptyPath,
     published |-> <<>>]
NoThread == 0
FreeRW == [w |-> NoThread, r |-> {}, q |-> {}]
NoThreads == [th |-> <<>>, mu |-> NoThread, rw |-> FreeRW, hist |-> <<>>]

NoCall ==
    [op |-> "new", err |-> FALSE, abs |-> EmptyPath, prev |-> EmptyPath, ret |-> NoBuffer,
     fresh |-> FALSE, was |-> 0]

\* The call gave r = [err, W, ret] and a buffer that was not open before it.
OpenedFresh(W, r) ==
    /\ ~r.err
    /\ r.ret # NoBuffer
    /\ \/ r.ret.path \notin DOMAIN W.editors
       \/ W.editors[r.ret.path].inst # r.ret.inst

\* The call op ran with result r = [err, W, ret] on the buffer at abs.
Ran(op, abs, r) ==
    /\ calls < MaxCalls
    /\ calls' = calls + 1
    /\ editors' = r.W.editors
    /\ active' = r.W.active
    /\ history' = r.W.history
    /\ disk' = r.W.disk
    /\ logger' = r.W.logger
    /\ stats' = r.W.stats
    /\ stateFile' = r.W.stateFile
    /\ wcall' = IF r.err THEN [NoCall EXCEPT !.op = op, !.err = TRUE]
                ELSE [op |-> op, err |-> FALSE, abs |-> abs, prev |-> active, ret |-> r.ret,
                      fresh |-> OpenedFresh(World, r),
                      was |-> StatsDuration(stats, abs)]
    /\ spent' = spent
    /\ UNCHANGED <<bus, cwd, thr, textVars, xmlVars>>

\* A call made on the workspace itself: no command of the dispatcher.
Call(op, abs, r) == Ran(op, abs, r) /\ UNCHANGED <<bmon, dcall>>

WsLoad ==
    \E path \in UserPaths :
        \E r \in {Load(World, path)} : Call("load", resolvePath(path).abs, r)

\* load <path>, also with a/x.txt... a path under the regular file a.txt
OpenPaths == UserPaths \cup {RelPath(<<NameA, <<"x">> >>)}

WsOpen ==
    \E path \in OpenPaths :
        \E r \in {Load(World, path)} : Call("load", resolvePath(path).abs, r)

WsInit ==
    \E path \in UserPaths, withLog \in BOOLEAN :
        \E kind \in InitKinds(path) :
            \E r \in {Init(World, kind, path, withLog)} :
                Call("init", resolvePath(path).abs, r)

WsSave ==
    \E path \in UserPaths :
        \E r \in {Save(World, path)} :
            Call("save", resolvePath(Target(World, path)).abs, r)

WsSaveAll ==
    \E order \in Orders(DOMAIN editors) :
        \E r \in {SaveEach(World, order)} : Call("save-all", EmptyPath, r)

WsClose ==
    \E path \in UserPaths, answer \in Answers :
        \E r \in {Close(World, path, answer)} :
            Call("close", resolvePath(Target(World, path)).abs, r)

WsEdit ==
    \E path \in UserPaths :
        \E r \in {Edit(World, path)} : Call("edit", resolvePath(path).abs, r)

WsEditorByPath ==
    \E path \in UserPaths :
        \E r \in {EditorByPath(World, path)} : Call("by-path", resolvePath(path).abs, r)

WsUndo == \E r \in {Undo(World)} : Call("undo", active, r)

WsRedo == \E r \in {Redo(World)} : Call("redo", active, r)

\* append "x" / append-child t a root
WsEditActive ==
    \E r \in {EditActive(World, <<"x">>, "t", "a", "root")} :
        /\ IF r.err THEN TRUE
           ELSE Len(IF editors[active].type = "text"
                    THEN editors[active].ed.undoStack
                    ELSE editors[active].ed.xml.undoStack) < MaxWsUndo
        /\ Call("edit-active", active, r)

WsPersist ==
    \E order \in Orders(DOMAIN editors) :
        \E r \in {Persist(World, order, SortedPaths)} : Call("persist", EmptyPath, r)

WsRestore == \E r \in {Restore(World)} : Call("restore", EmptyPath, r)

\* log-on <file>
LogEnable ==
    \E path \in LogPaths :
        \E r \in {Ok(Enable(World, path), NoBuffer)} : Call("log-on", Abs(path), r)

\* log-off <file>
LogDisable ==
    \E path \in LogPaths :
        \E r \in {Ok(Disable(World, path), NoBuffer)} : Call("log-off", Abs(path), r)

\* The logger is handed an event.
LogHandle ==
    \E evt \in Events :
        \E r \in {Ok(Handle(World, evt), NoBuffer)} : Call("handle", evt.File, r)

\* A new process in the same directory: main builds the bus, the logger and the
\* workspace and calls Restore.
NewProcess(W) ==
    [W EXCEPT !.editors = [p \in {} |-> NoBuffer],
              !.active = EmptyPath,
              !.history = <<>>,
              !.logger = NewManager,
              !.stats = [NewTracker EXCEPT !.clock = W.stats.clock]]

WsRestart == \E r \in {Restore(NewProcess(World))} : Call("restart", EmptyPath, r)

\* The working directories a process can have: the base directory and /v.
WorkDirs == {BaseDir, AbsPath(<< <<"v">> >>)}

Command(cmd, n, path, raw) ==
    [cmd |-> cmd, n |-> n, path |-> path, kind |-> <<"text">>, text |-> <<"x">>,
     withLog |-> TRUE, answer |-> "no", raw |-> raw]

\* The command lines typed: with the arguments they need, with too few or too
\* many, and a word that is no command.
Commands ==
    { Command("load", 1, RelPath(<<NameA>>), <<"load", SPACE, "a.txt">>),
      Command("load", 1, RelPath(<<NameC>>), <<"load", SPACE, "c.txt", SPACE>>),
      Command("load", 1, RelPath(<<NameB>>), <<"load", SPACE, "b.xml">>),
      Command("load", 0, EmptyPath, <<"load">>),
      Command("init", 3, RelPath(<<NameC>>), <<"init", SPACE, "text", SPACE, "c.txt", SPACE, "with-log">>),
      Command("init", 1, EmptyPath, <<"init", SPACE, "text">>),
      Command("save", 0, EmptyPath, <<"save">>),
      Command("save", 1, RelPath(<<NameA>>), <<"save", SPACE, "a.txt">>),
      Command("close", 1, RelPath(<<NameA>>), <<"close", SPACE, "a.txt">>),
      [Command("close", 0, EmptyPath, <<"close">>) EXCEPT !.answer = "yes"],
      [Command("close", 0, EmptyPath, <<"close">>) EXCEPT !.answer = "error"],
      Command("edit", 1, RelPath(<<NameA>>), <<"edit", SPACE, "a.txt">>),
      Command("append", 1, EmptyPath, <<"append", SPACE, "x">>),
      Command("undo", 0, EmptyPath, <<"undo">>),
      Command("log-on", 1, RelPath(<<NameA>>), <<"log-on", SPACE, "a.txt">>),
      Command("log-on", 1, RelPath(<<NameC>>), <<"log-on", SPACE, "c.txt">>),
      Command("log-on", 0, EmptyPath, <<"log-on">>),
      Command("log-on", 2, RelPath(<<NameA>>), <<"log-on", SPACE, "a.txt", SPACE, "c.txt">>),
      Command("log-off", 1, RelPath(<<NameA>>), <<"log-off", SPACE, "a.txt">>),
      Command("log-off", 0, EmptyPath, <<"log-off">>),
      Command("bogus", 0, EmptyPath, <<"bogus">>) }

\* One line read by Dispatcher.Run and executed.
CliExecute ==
    \E c \in Commands :
        \E r \in {Execute(World, c, Operation(World, c))} :
            /\ Ran(c.cmd, r.file, r)
            /\ dcall' = [cmd |-> c.cmd, args |-> [n |-> c.n, path |-> c.path], err |-> r.err,
                         file |-> r.file, published |-> r.published]
            /\ bmon' = bmon

(***************************************************************************)
(* Goroutines sharing one bus and one logger.  A goroutine makes up to     *)
(* MaxOps calls; a call runs statement by statement, and a statement that  *)
(* takes a lock can run only when the lock can be taken.  All calls are    *)
(* about a.txt.                                                            *)
(***************************************************************************)
Threads == 1..MaxThreads

ThreadOps == {"Enable", "Disable", "Handle", "ActivePaths", "Subscribe", "Publish"}

\* The event a goroutine publishes or hands to the logger.
ThreadEvent == Event(EventCommandExecuted, <<"x">>, PathA)

\* A goroutine between two calls, with n calls left to make.
Idle(n) == [op |-> "", raw |-> <<>>, pc |-> "idle", i |-> 0, seen |-> FALSE, left |-> n]

\* The event of the call c.
EventOf(c) == Event(EventCommandExecuted, c.raw, ThreadEvent.File)

\* Handle, line 40: enabled := m.enabled[evt.File]
HandleEnabledAlways(lg, evt) == TRUE

HandleEnabled(lg, evt) == evt.File \in lg.enabled

\* The calls of the logger that are recorded: who called what, which recorded
\* calls had returned when it was called, whether it has returned, and what
\* ActivePaths returned.
Called(h, t, op, raw) ==
    Append(h, [t |-> t, op |-> op, raw |-> raw, prev |-> {i \in DOMAIN h : h[i].done},
               done |-> FALSE, out |-> {}])

\* The recorded call of goroutine t returns out.
Return(h, t, out) ==
    [i \in DOMAIN h |->
        IF h[i].t = t /\ ~h[i].done THEN [h[i] EXCEPT !.done = TRUE, !.out = out] ELSE h[i]]

\* What the call c returns when it returns on the logger lg.
Out(c, lg) == IF c.op = "ActivePaths" THEN lg.enabled ELSE {}

\* The first statement of a call.
Entry(op) ==
    CASE op \in {"Enable", "Disable", "Handle", "ActivePaths"} -> "mu.Lock"
      [] op = "Subscribe" -> "bus.Lock"
      [] op = "Publish" -> "bus.RLock"

\* Disable subscribing to the bus while it holds the logger's lock.
LockedThenBus(op) ==
    CASE op = "Enable" -> "enable"
      [] op = "Disable" -> "bus.Lock"
      [] op = "ActivePaths" -> "paths"
      [] op \in {"Handle", "Publish"} -> "read"

\* The statement that follows m.mu.Lock() in a call of the logger.
Locked(op) ==
    CASE op = "Enable" -> "enable"
      [] op = "Disable" -> "disable"
      [] op = "ActivePaths" -> "paths"
      [] op \in {"Handle", "Publish"} -> "read"

\* Where Handle returns to: the loop of Publish, or the caller.
Returned(c) ==
    IF c.op = "Publish" THEN [c EXCEPT !.pc = "range", !.i = @ + 1]
    ELSE Idle(c.left)

\* sync.RWMutex: RLock succeeds when no writer holds the lock or waits for it;
\* Lock succeeds when nobody holds it.
CanRLock(rw) == rw.w = NoThread /\ rw.q = {}
CanLock(rw) == rw.w = NoThread /\ rw.r = {}

\* The step of goroutine t leaves the workspace, the bus and the log as they are.
ThreadOnly(t, c) ==
    /\ thr' = [thr EXCEPT !.th[t] = c]
    /\ UNCHANGED <<editors, active, history, disk, logger, stats, stateFile, wcall, calls, spent>>
    /\ UNCHANGED <<busVars, cwd, dcall, textVars, xmlVars>>

\* The step of goroutine t ends in the world W, with the locks as in l.
ThreadDid(t, c, W, l) ==
    /\ thr' = [l EXCEPT !.th[t] = c,
                        !.hist = IF c.pc = "idle" THEN Return(@, t, Out(thr.th[t], logger))
                                 ELSE @]
    /\ logger' = W.logger
    /\ disk' = W.disk
    /\ UNCHANGED <<editors, active, history, stats, stateFile, wcall, calls, spent>>
    /\ UNCHANGED <<busVars, cwd, dcall, textVars, xmlVars>>

\* A goroutine calls an operation of the logger or of the bus.
ThrCall ==
    \E t \in Threads, op \in ThreadOps :
        /\ thr.th[t].pc = "idle" /\ thr.th[t].left > 0
        /\ ThreadOnly(t, [op |-> op, raw |-> ThreadEvent.Raw, pc |-> Entry(op), i |-> 0,
                          seen |-> FALSE, left |-> thr.th[t].left - 1])

\* The raw command line of the events goroutine t hands to the logger: t letters.
RawOf(t) == [i \in 1..t |-> "x"]

LoggerOps == {"Enable", "Disable", "Handle", "ActivePaths"}

\* A goroutine calls an operation of the logger, and the call is recorded.
LogCall ==
    \E t \in Threads, op \in LoggerOps :
        /\ thr.th[t].pc = "idle" /\ thr.th[t].left > 0
        /\ Len(thr.hist) < MaxTrace
        /\ thr' = [thr EXCEPT !.th[t] = [op |-> op, raw |-> RawOf(t), pc |-> Entry(op),
                                         i |-> 0, seen |-> FALSE, left |-> @.left - 1],
                              !.hist = Called(@, t, op, RawOf(t))]
        /\ UNCHANGED <<editors, active, history, disk, logger, stats, stateFile, wcall, calls, spent>>
        /\ UNCHANGED <<busVars, cwd, dcall, textVars, xmlVars>>

\* m.mu.Lock()
ThrLock ==
    \E t \in Threads :
        /\ thr.th[t].pc = "mu.Lock" /\ thr.mu = NoThread
        /\ ThreadDid(t, [thr.th[t] EXCEPT !.pc = Locked(thr.th[t].op)], World,
                     [thr EXCEPT !.mu = t])

\* Enable, lines 57-65, and the deferred Unlock
ThrEnable ==
    \E t \in Threads :
        /\ thr.th[t].pc = "enable"
        /\ ThreadDid(t, Idle(thr.th[t].left), Enable(World, PathA),
                     [thr EXCEPT !.mu = NoThread])

\* Disable, line 76, and the deferred Unlock
ThrDisable ==
    \E t \in Threads :
        /\ thr.th[t].pc = "disable"
        /\ ThreadDid(t, Idle(thr.th[t].left), Disable(World, PathA),
                     [thr EXCEPT !.mu = NoThread])

\* ActivePaths, lines 102-107, and the deferred Unlock
ThrActivePaths ==
    \E t \in Threads :
        /\ thr.th[t].pc = "paths"
        /\ ThreadDid(t, Idle(thr.th[t].left), World, [thr EXCEPT !.mu = NoThread])

\* Handle, lines 39-43: enabled := m.enabled[evt.File]; m.mu.Unlock(); return
\* when it is not set
ThrRead ==
    \E t \in Threads :
        /\ thr.th[t].pc = "read"
        /\ ThreadDid(t,
                     IF HandleEnabled(logger, EventOf(thr.th[t]))
                     THEN [thr.th[t] EXCEPT !.pc = "append", !.seen = TRUE]
                     ELSE Returned(thr.th[t]),
                     World, [thr EXCEPT !.mu = NoThread])

\* Handle, lines 44-46: m.append(evt.File, line), without the lock
ThrAppend ==
    \E t \in Threads :
        /\ thr.th[t].pc = "append"
        /\ ThreadDid(t, Returned(thr.th[t]),
                     [World EXCEPT !.disk =
                         LogAppend(disk, EventOf(thr.th[t]).File,
                                   EventLine(EventOf(thr.th[t]))).disk],
                     thr)

\* b.mu.Lock(), first part: the writer announces itself
ThrBusLock ==
    \E t \in Threads :
        /\ thr.th[t].pc = "bus.Lock"
        /\ ThreadDid(t, [thr.th[t] EXCEPT !.pc = "bus.Locking"], World,
                     [thr EXCEPT !.rw.q = @ \cup {t}])

\* b.mu.Lock(), second part: the lock is taken when nobody holds it
ThrBusLocked ==
    \E t \in Threads :
        /\ thr.th[t].pc = "bus.Locking" /\ CanLock(thr.rw)
        /\ ThreadDid(t, [thr.th[t] EXCEPT !.pc = "subscribe"], World,
                     [thr EXCEPT !.rw.q = @ \ {t}, !.rw.w = t])

\* Subscribe, line 46, and the deferred Unlock
ThrSubscribe ==
    \E t \in Threads :
        /\ thr.th[t].pc = "subscribe"
        /\ thr' = [thr EXCEPT !.th[t] = Idle(thr.th[t].left), !.rw.w = NoThread]
        /\ bus' = Subscribe(bus, "logger")
        /\ UNCHANGED <<editors, active, history, disk, logger, stats, stateFile, wcall, calls, spent>>
        /\ UNCHANGED <<bmon, cwd, dcall, textVars, xmlVars>>

\* b.mu.RLock()
ThrRLock ==
    \E t \in Threads :
        /\ thr.th[t].pc = "bus.RLock" /\ CanRLock(thr.rw)
        /\ ThreadDid(t, [thr.th[t] EXCEPT !.pc = "range", !.i = 1], World,
                     [thr EXCEPT !.rw.r = @ \cup {t}])

\* Publish, lines 53-55: the next listener is called, or the loop ends and the
\* deferred RUnlock runs
ThrRange ==
    \E t \in Threads :
        /\ thr.th[t].pc = "range"
        /\ IF thr.th[t].i <= Len(bus.listeners)
           THEN ThreadDid(t, [thr.th[t] EXCEPT !.pc = "mu.Lock"], World, thr)
           ELSE ThreadDid(t, Idle(thr.th[t].left), World, [thr EXCEPT !.rw.r = @ \ {t}])

\* bus.Subscribe(o)
BusSubscribe ==
    \E o \in Observers :
        /\ Len(bus.listeners) < MaxListeners
        /\ bus' = Subscribe(bus, o)
        /\ bmon' = bmon
        /\ UNCHANGED <<editors, active, history, disk, logger, stats, stateFile, wcall, calls, spent>>
        /\ UNCHANGED procVars
        /\ UNCHANGED <<textVars, xmlVars>>

\* bus.Publish(e)
BusPublish ==
    \E e \in BusEvents :
        /\ Len(bmon.published) < MaxPublish
        /\ bus' = Publish(bus, e)
        /\ bmon' = [published |-> Append(bmon.published, e),
                    due |-> bmon.due \o [i \in 1..Len(bus.listeners) |->
                                                [to |-> bus.listeners[i],
                                                 pub |-> Len(bmon.published) + 1]]]
        /\ UNCHANGED <<editors, active, history, disk, logger, stats, stateFile, wcall, calls, spent>>
        /\ UNCHANGED procVars
        /\ UNCHANGED <<textVars, xmlVars>>

\* The tracker's clock one unit later.
Tick(s) == [s EXCEPT !.clock = @ + 1]

\* The tracker's clock goes on by one unit between two calls.
ClockTick ==
    /\ stats.clock < MaxClock
    /\ stats' = Tick(stats)
    /\ spent' = IF stats.active = EmptyPath THEN spent
                ELSE [spent EXCEPT ![stats.active] = @ + 1]
    /\ UNCHANGED <<editors, active, history, disk, logger, stateFile, wcall, calls>>
    /\ UNCHANGED procVars
    /\ UNCHANGED <<busVars, textVars, xmlVars>>

\* NewWorkspace in a directory that holds StartDisk.
WsStart ==
    /\ editors = [p \in {} |-> NoBuffer]
    /\ active = EmptyPath
    /\ history = <<>>
    /\ disk = StartDisk
    /\ logger = NewManager
    /\ stats = NewTracker
    /\ stateFile \in StartStateFiles
    /\ wcall = NoCall
    /\ calls = 0
    /\ spent = [p \in Range(KnownPaths) |-> 0]
    /\ bus = NewBus
    /\ bmon = NoDeliveries
    /\ cwd = BaseDir
    /\ dcall = NoCommand
    /\ thr = NoThreads

\* The workspace the buffer specifications leave alone.
WsIdle ==
    /\ editors = [p \in {} |-> NoBuffer]
    /\ active = EmptyPath
    /\ history = <<>>
    /\ disk = StartDisk
    /\ logger = NewManager
    /\ stats = NewTracker
    /\ stateFile = NoStateFile
    /\ wcall = NoCall
    /\ calls = 0
    /\ spent = [p \in Range(KnownPaths) |-> 0]
    /\ bus = NewBus
    /\ bmon = NoDeliveries
    /\ cwd = BaseDir
    /\ dcall = NoCommand
    /\ thr = NoThreads

TextStart ==
    /\ \/ \E d \in FileData : text = NewTextEditor(splitLines(d), FALSE)
       \/ text = NewTextEditor(<<>>, TRUE)
    /\ tcall = [op |-> "new", err |-> FALSE]
    /\ tmon = NoRun

\* The text buffer the other specifications leave alone.
TextIdle ==
    /\ text = NewTextEditor(<<>>, TRUE)
    /\ tcall = [op |-> "new", err |-> FALSE]
    /\ tmon = NoRun

TextInit == TextStart /\ XmlIdle /\ WsIdle

TextNext ==
    \/ TextAppend
    \/ TextInsert
    \/ TextDelete
    \/ TextReplace
    \/ TextUndo
    \/ TextRedo

SpecText == TextInit /\ [][TextNext]_vars

XmlInit == XmlStart /\ TextIdle /\ WsIdle

XmlNext ==
    \/ XmlInsertBefore
    \/ XmlAppendChild
    \/ XmlEditID
    \/ XmlEditText
    \/ XmlDeleteElement
    \/ XmlUndo
    \/ XmlRedo

SpecXML == XmlInit /\ [][XmlNext]_vars

SpecInit == WsStart /\ TextIdle /\ XmlIdle

Next ==
    \/ WsLoad
    \/ WsInit
    \/ WsSave
    \/ WsSaveAll
    \/ WsClose
    \/ WsEdit
    \/ WsEditorByPath
    \/ WsUndo
    \/ WsRedo
    \/ WsEditActive
    \/ WsPersist
    \/ WsRestore

Spec == SpecInit /\ [][Next]_vars

\* The calls that drive the tracker, with its clock running.
StatsNext ==
    \/ WsLoad
    \/ WsEdit
    \/ WsClose
    \/ WsPersist
    \/ ClockTick

SpecStats == SpecInit /\ [][StatsNext]_vars

\* The calls that reach the tracker through Switch alone.
SwitchNext ==
    \/ WsLoad
    \/ WsEdit
    \/ ClockTick

SpecSwitch == SpecInit /\ [][SwitchNext]_vars

\* The calls that reach the logger in one process.
LogNext ==
    \/ WsLoad
    \/ WsInit
    \/ WsRestore
    \/ LogEnable
    \/ LogDisable
    \/ LogHandle

SpecLog == SpecInit /\ [][LogNext]_vars

\* Sessions: a process saves its state and a new one restores it.
SessionNext ==
    \/ WsLoad
    \/ WsInit
    \/ WsSave
    \/ WsClose
    \/ WsEditActive
    \/ LogEnable
    \/ LogDisable
    \/ WsPersist
    \/ WsRestart

SpecSession == SpecInit /\ [][SessionNext]_vars

BusInit == WsIdle /\ TextIdle /\ XmlIdle

BusNext ==
    \/ BusSubscribe
    \/ BusPublish

SpecBus == BusInit /\ [][BusNext]_vars

\* Opening, saving and closing buffers, with every path a user can name.
OpenNext ==
    \/ WsOpen
    \/ WsInit
    \/ WsSave
    \/ WsClose
    \/ WsEditActive

SpecOpen == SpecInit /\ [][OpenNext]_vars

\* A dispatcher on a workspace in the base directory, in a process started in
\* any working directory.
CliInit ==
    /\ editors = [p \in {} |-> NoBuffer]
    /\ active = EmptyPath
    /\ history = <<>>
    /\ disk = StartDisk
    /\ logger = NewManager
    /\ stats = NewTracker
    /\ stateFile = NoStateFile
    /\ wcall = NoCall
    /\ calls = 0
    /\ spent = [p \in Range(KnownPaths) |-> 0]
    /\ bus = NewBus
    /\ bmon = NoDeliveries
    /\ cwd \in WorkDirs
    /\ dcall = NoCommand
    /\ thr = NoThreads
    /\ TextIdle /\ XmlIdle

CliNext == CliExecute

SpecCli == CliInit /\ [][CliNext]_vars

\* main has subscribed the logger; the goroutines have made no call.
ThreadInit ==
    /\ editors = [p \in {} |-> NoBuffer]
    /\ active = EmptyPath
    /\ history = <<>>
    /\ disk = StartDisk
    /\ logger = NewManager
    /\ stats = NewTracker
    /\ stateFile = NoStateFile
    /\ wcall = NoCall
    /\ calls = 0
    /\ spent = [p \in Range(KnownPaths) |-> 0]
    /\ bus = Subscribe(NewBus, "logger")
    /\ bmon = NoDeliveries
    /\ cwd = BaseDir
    /\ dcall = NoCommand
    /\ thr = [th |-> [t \in Threads |-> Idle(MaxOps)], mu |-> NoThread, rw |-> FreeRW,
              hist |-> <<>>]
    /\ TextIdle /\ XmlIdle

ThreadNext ==
    \/ ThrCall
    \/ ThrLock
    \/ ThrEnable
    \/ ThrDisable
    \/ ThrActivePaths
    \/ ThrRead
    \/ ThrAppend
    \/ ThrBusLock
    \/ ThrBusLocked
    \/ ThrSubscribe
    \/ ThrRLock
    \/ ThrRange

SpecThreads == ThreadInit /\ [][ThreadNext]_vars

\* The goroutine of main, and the world main starts in.
Main == 0
MainWorld == [World EXCEPT !.logger = NewManager, !.disk = StartDisk]

\* The goroutines call the logger alone; main has enabled the log of a.txt
\* before it started them, or has not.
LoggerInit ==
    /\ editors = [p \in {} |-> NoBuffer]
    /\ active = EmptyPath
    /\ history = <<>>
    /\ stats = NewTracker
    /\ stateFile = NoStateFile
    /\ wcall = NoCall
    /\ calls = 0
    /\ spent = [p \in Range(KnownPaths) |-> 0]
    /\ bus = Subscribe(NewBus, "logger")
    /\ bmon = NoDeliveries
    /\ cwd = BaseDir
    /\ dcall = NoCommand
    /\ \E h \in {<<>>, Return(Called(<<>>, Main, "Enable", <<>>), Main, {})} :
          /\ thr = [th |-> [t \in Threads |-> Idle(MaxOps)], mu |-> NoThread, rw |-> FreeRW,
                    hist |-> h]
          /\ logger = IF h = <<>> THEN NewManager
                      ELSE Enable([editors |-> editors, active |-> active, history |-> history,
                                   disk |-> StartDisk, logger |-> NewManager, stats |-> stats,
                                   stateFile |-> stateFile, cwd |-> cwd], PathA).logger
          /\ disk = IF h = <<>> THEN StartDisk
                    ELSE Enable([editors |-> editors, active |-> active, history |-> history,
                                 disk |-> StartDisk, logger |-> NewManager, stats |-> stats,
                                 stateFile |-> stateFile, cwd |-> cwd], PathA).disk
    /\ TextIdle /\ XmlIdle

LoggerNext ==
    \/ LogCall
    \/ ThrLock
    \/ ThrEnable
    \/ ThrDisable
    \/ ThrActivePaths
    \/ ThrRead
    \/ ThrAppend

SpecLogger == LoggerInit /\ [][LoggerNext]_vars

(***************************************************************************)
(* Claims about the text buffer (checked under SpecText).                  *)
(***************************************************************************)
Top(stack) == stack[Len(stack)]

\* C5: after k successful edits and j <= k Undos, lines are the lines from before
\* the j-th last of those edits (so edit, Undo gives the pre-edit lines, and k edits,
\* k Undos give the lines before the first); after edit, Undo the edit's record
\* is on top of the redo stack; after edit, Undo, Redo lines are the post-edit lines.
C5_TextUndoInverse ==
    /\ tmon.stage = "undos" =>
            text.lines = tmon.pres[Len(tmon.pres) - tmon.undone + 1]
    /\ (tmon.stage = "undos" /\ tmon.undone = 1) =>
            /\ Len(text.redoStack) > 0
            /\ Top(text.redoStack) = [description |-> tmon.op,
                                      before |-> tmon.pres[Len(tmon.pres)],
                                      after |-> tmon.post]
    /\ tmon.stage = "redo" => text.lines = tmon.post

C5_Witness ==
    /\ tmon.stage = "undos"
    /\ tmon.undone = 2
    /\ Len(tmon.pres) = 2
    /\ tmon.pres[1] # tmon.pres[2]
    /\ tmon.pres[2] # tmon.post
    /\ tcall = [op |-> "undo", err |-> FALSE]

\* What each edit of the TextEditor e gives: [err, ed]
TextEdits(e) ==
    {[err |-> m.err, ed |-> execute(e, "edit", m)] :
        m \in {appendMutate(e.lines, t) : t \in TextArgs}
              \cup {insertSpan(e.lines, l, c, t) : l \in ArgInts, c \in ArgInts, t \in TextArgs}
              \cup {deleteSpan(e.lines, l, c, n) : l \in ArgInts, c \in ArgInts, n \in ArgInts}
              \cup {replaceMutate(e.lines, l, c, n, t) :
                       l \in ArgInts, c \in ArgInts, n \in ArgInts, t \in TextArgs}}

\* C7: a text-buffer call that fails (Insert, Delete, Replace rejected, Undo or
\* Redo on an empty stack) leaves lines, modified and both stacks as they were.
C7_TextFailureNoChange ==
    \A r \in TextEdits(text) \cup {TextUndoCall(text), TextRedoCall(text)} :
        r.err => r.ed = text

C7_Witness ==
    /\ tcall = [op |-> "replace", err |-> TRUE]
    /\ Len(text.lines) > 0
    /\ Len(text.redoStack) > 0

(***************************************************************************)
(* Claims about the XML buffer (checked under SpecXML).                    *)
(***************************************************************************)
\* The index is exactly the ids of the tree: its keys are the ids of the nodes the
\* root reaches, each key leads to a node of the tree that carries it.
IndexIsOfTree ==
    /\ DOMAIN xml.index = {heap[a].ID : a \in TreeNodes(heap, xml.root)}
    /\ \A id \in DOMAIN xml.index :
            /\ xml.index[id] \in TreeNodes(heap, xml.root)
            /\ heap[xml.index[id]].ID = id

\* Every node's Parent is the node of the tree that holds it, the root's is nil.
ParentsAreOfTree ==
    /\ heap[xml.root].Parent = Nil
    /\ \A a \in TreeNodes(heap, xml.root) :
            \A i \in 1..Len(heap[a].Children) : heap[heap[a].Children[i]].Parent = a

\* The stored snapshots as values, oldest record first.
StackVals(h, stack) ==
    [i \in 1..Len(stack) |->
        [description |-> stack[i].description,
         before |-> TreeVal(h, stack[i].before),
         after |-> TreeVal(h, stack[i].after)]]

Reverse(seq) == [i \in 1..Len(seq) |-> seq[Len(seq) + 1 - i]]

\* What each edit of the XMLEditor x gives, before the clone execute takes first:
\* [err, xml, heap]
XmlEditsOn(x, before) ==
    {XmlExecute(x, "edit", before, m) :
        m \in {InsertBeforeMutate(before.heap, x.index, tag, newID, id, t) :
                  tag \in XmlTags, newID \in XmlIds, id \in XmlIds, t \in XmlTextArgs}
              \cup {AppendChildMutate(before.heap, x.index, tag, newID, id, t) :
                       tag \in XmlTags, newID \in XmlIds, id \in XmlIds, t \in XmlTextArgs}
              \cup {EditIDMutate(before.heap, x.index, id, newID) :
                       id \in XmlIds, newID \in XmlIds}
              \cup {EditTextMutate(before.heap, x.index, id, t) : id \in XmlIds, t \in XmlTexts}
              \cup {DeleteElementMutate(before.heap, x.index, id) : id \in XmlIds}}

\* What each call of the XMLEditor gives in this state: [err, xml, heap]
XmlResults ==
    XmlEditsOn(xml, XmlBefore) \cup {XmlUndoApply(xml, heap), XmlRedoApply(xml, heap)}

\* The call that left the editor and heap c moved a record between the stacks
\* and altered no stored snapshot.
StacksMoved(c) ==
    StackVals(c.heap, c.xml.undoStack) \o Reverse(StackVals(c.heap, c.xml.redoStack))
        = StackVals(heap, xml.undoStack) \o Reverse(StackVals(heap, xml.redoStack))

\* The edit that left the editor and heap c kept the undo records it found.
StacksKept(c) ==
    SubSeq(StackVals(c.heap, c.xml.undoStack), 1, Len(xml.undoStack))
        = StackVals(heap, xml.undoStack)

\* C6: after k successful XML edits and j <= k Undos the tree is the whole tree
\* from before the j-th last edit; after edit, Undo, Redo it is the post-edit tree;
\* after an Undo or Redo the index and the Parent pointers are those of the restored
\* tree; and no call alters a snapshot that stays stored (an Undo or Redo moves a
\* record between the stacks, an edit keeps the undo records it found).
C6_XmlUndoInverse ==
    /\ xmon.stage = "undos" =>
          TreeVal(heap, xml.root) = xmon.pres[Len(xmon.pres) - xmon.undone + 1]
    /\ xmon.stage = "redo" => TreeVal(heap, xml.root) = xmon.post
    /\ xcall.op \in {"undo", "redo"} => IndexIsOfTree /\ ParentsAreOfTree
    /\ \A r \in {XmlUndoApply(xml, heap), XmlRedoApply(xml, heap)} :
          r.err = "" => StacksMoved(Settle(r.xml, r.heap))
    /\ \A r \in XmlEditsOn(xml, XmlBefore) :
          r.err = "" => StacksKept(Settle(r.xml, r.heap))

\* An edit made after edit, Undo, Redo, with the earlier record still stored.
C6_Witness ==
    /\ xcall.op \in XmlEditOps
    /\ Len(xml.undoStack) = 2
    /\ xmon.stage = "edits"
    /\ Len(xmon.pres) = 1
    /\ StackVals(heap, xml.undoStack)[1].after = xmon.pres[1]
    /\ xmon.pres[1] # xmon.post

\* C8: an XMLEditor call that fails (element not found, duplicate id, root
\* protected, mixed content, Undo or Redo on an empty stack) leaves the tree, the
\* index, the modified flag and both stacks as they were.
C8_XmlFailureNoChange ==
    \A r \in XmlResults :
        r.err # "" => Settle(r.xml, r.heap) = [xml |-> xml, heap |-> heap]

\* A rejected EditID (the new id is taken) on a buffer with records on both stacks.
C8_Witness ==
    /\ xcall.err
    /\ Len(xml.undoStack) > 0
    /\ Len(xml.redoStack) > 0
    /\ \E oldID \in XmlIds, newID \in XmlIds :
            EditIDMutate(heap, xml.index, oldID, newID).err = "DuplicateId"

\* C9: the keys of the index are exactly the ids of the elements reachable from
\* the root, each key maps to the reachable element that carries it, and no two
\* reachable elements carry the same id.
C9_IndexConsistent ==
    /\ IndexIsOfTree
    /\ \A a, b \in TreeNodes(heap, xml.root) : heap[a].ID = heap[b].ID => a = b

\* A subtree of two elements has been deleted and the deletion undone.
C9_Witness ==
    /\ xcall.op = "undo"
    /\ xmon.op = "delete-element"
    /\ Cardinality(DOMAIN xml.index) = 3
    /\ Len(heap[xml.root].Children) = 1

\* C10: no element reachable from the root has both text that is non-empty after
\* trimming and a child element.
C10_NoMixedContent ==
    \A a \in TreeNodes(heap, xml.root) :
        ~(TrimSpace(heap[a].Text) # <<>> /\ Len(heap[a].Children) > 0)

\* An element with blank text got a child, and an element with text refuses one.
C10_Witness ==
    /\ \E a \in TreeNodes(heap, xml.root) :
            heap[a].Text # <<>> /\ Len(heap[a].Children) > 0
    /\ \E a \in TreeNodes(heap, xml.root) : TrimSpace(heap[a].Text) # <<>>
    /\ xcall.err

(***************************************************************************)
(* Claims about the workspace (checked under Spec).                        *)
(***************************************************************************)
\* C1: after any sequence of Load, Init, Edit, Close and Restore (and of the other
\* workspace calls) history holds no path twice and the set of its paths is
\* exactly the set of keys of editors.
C1_HistoryIsEditors ==
    /\ \A i, j \in 1..Len(history) : history[i] = history[j] => i = j
    /\ {history[i] : i \in 1..Len(history)} = DOMAIN editors

\* Edit went back to a buffer that was opened first of three.
C1_Witness ==
    /\ wcall.op = "edit"
    /\ ~wcall.err
    /\ wcall.prev # wcall.abs
    /\ Len(history) = 3
    /\ history[1] = wcall.abs

\* C2: a non-empty active is a key of editors and is history[0]; active is empty
\* exactly when no buffer is open.
C2_ActiveIsHeadOfHistory ==
    /\ active # EmptyPath =>
            /\ active \in DOMAIN editors
            /\ Len(history) > 0
            /\ history[1] = active
    /\ active = EmptyPath <=> DOMAIN editors = {}

\* Restore opened a buffer, and closing it left the workspace without one.
C2_Witness ==
    /\ wcall.op = "close"
    /\ ~wcall.err
    /\ wcall.prev = wcall.abs
    /\ active = EmptyPath
    /\ stateFile.present

\* The user paths other than "" that resolve to the same absolute path.
SamePath(p, q) ==
    /\ p # EmptyPath
    /\ q # EmptyPath
    /\ resolvePath(p).abs = resolvePath(q).abs

\* A Load that succeeded on a path that was open: it returned the buffer that was
\* there, activated it and left every buffer and the disk as they were.
LoadedAgain(W, abs, r) ==
    (~r.err /\ abs \in DOMAIN W.editors) =>
        /\ r.W.editors = W.editors
        /\ r.W.disk = W.disk
        /\ r.ret = [path |-> abs, inst |-> W.editors[abs].inst]
        /\ r.W.active = abs

\* C3: in every reachable state, Load(p) made twice returns the same buffer object
\* both times and the second call changes nothing (no buffer registered, no file
\* read, content and undo history as they were, the buffer active); Load, Edit,
\* Save, Close and EditorByPath do the same on two paths that resolve to the same
\* absolute path; and a Load of a path that is open returns the buffer that was
\* there, activates it and leaves every buffer and the disk as they were.
C3_LoadSameBuffer ==
    /\ \A p \in UserPaths :
          /\ LET r1 == Load(World, p)
                 r2 == Load(r1.W, p)
             IN ~r1.err => (~r2.err /\ r2.ret = r1.ret /\ r2.W = r1.W
                            /\ r1.W.active = r1.ret.path)
          /\ LoadedAgain(World, resolvePath(p).abs, Load(World, p))
    /\ \A p, q \in UserPaths :
          SamePath(p, q) =>
              /\ Load(World, p) = Load(World, q)
              /\ Edit(World, p) = Edit(World, q)
              /\ Save(World, p) = Save(World, q)
              /\ \A answer \in Answers : Close(World, p, answer) = Close(World, q, answer)
              /\ EditorByPath(World, p) = EditorByPath(World, q)

\* Load came back to a buffer that has an edit to undo and was not active.
C3_Witness ==
    /\ wcall.op = "load"
    /\ ~wcall.err
    /\ ~wcall.fresh
    /\ wcall.prev # wcall.abs
    /\ wcall.prev # EmptyPath
    /\ editors[wcall.abs].type = "text"
    /\ Len(editors[wcall.abs].ed.undoStack) > 0

\* A sequence without the entries equal to path.
Without(seq, path) == SelectSeq(seq, LAMBDA q : q # path)

\* A Close of the buffer at abs that succeeded in W: history is what it was
\* without abs, and the active buffer is the first of what remains when abs was
\* active, the one that was active otherwise.
ClosedNext(W, abs, r) ==
    ~r.err =>
        /\ r.W.history = Without(W.history, abs)
        /\ r.W.active = IF W.active # abs THEN W.active
                        ELSE IF Without(W.history, abs) = <<>> THEN EmptyPath
                        ELSE Without(W.history, abs)[1]

\* C4: a Close of the active buffer makes the first remaining entry of history
\* active (the most recently activated remaining buffer), or leaves active empty
\* when none remains; a Close of another buffer leaves active as it is; either
\* way history is what it was without the closed path.
C4_CloseNextActive ==
    \A path \in UserPaths, answer \in Answers :
        ClosedNext(World, resolvePath(Target(World, path)).abs, Close(World, path, answer))

\* The active one of three buffers was closed.
C4_Witness ==
    /\ wcall.op = "close"
    /\ ~wcall.err
    /\ wcall.prev = wcall.abs
    /\ Len(history) = 2
    /\ active = history[1]


(***************************************************************************)
(* The root of an XML buffer.                                              *)
(***************************************************************************)
RootID == heap[xml.root].ID

\* An id no element of the inputs carries.
FreshID == "c"

\* The root of the editor and heap c has the tag and the id of the root now,
\* and no parent.
RootKept(c) ==
    /\ c.heap[c.xml.root].ID = heap[xml.root].ID
    /\ c.heap[c.xml.root].Tag = heap[xml.root].Tag
    /\ c.heap[c.xml.root].Parent = Nil

\* C11: in every reachable state of an XML buffer, states reached through Undo
\* and Redo included, EditID of the root's id, DeleteElement of the root's id
\* and InsertBefore with the root as its target fail, and no call changes the
\* root's tag or id.
C11_RootProtected ==
    /\ xml.root # Nil
    /\ \A newID \in XmlIds \cup {FreshID} :
          XmlExecute(xml, "edit-id", XmlBefore,
                     EditIDMutate(XmlBefore.heap, xml.index, RootID, newID)).err # ""
    /\ XmlExecute(xml, "delete-element", XmlBefore,
                  DeleteElementMutate(XmlBefore.heap, xml.index, RootID)).err # ""
    /\ \A tag \in XmlTags, newID \in XmlIds \cup {FreshID}, t \in XmlTextArgs :
          XmlExecute(xml, "insert-before", XmlBefore,
                     InsertBeforeMutate(XmlBefore.heap, xml.index, tag, newID, RootID, t)).err # ""
    /\ \A r \in XmlResults : RootKept(Settle(r.xml, r.heap))

\* A Redo after an Undo has put back a tree whose root has a child, and the
\* three calls on the root are refused because it is the root.
C11_Witness ==
    /\ xcall.op = "redo"
    /\ xml.undoStack # <<>>
    /\ Len(heap[xml.root].Children) > 0
    /\ RootID \in DOMAIN xml.index
    /\ EditIDMutate(heap, xml.index, RootID, FreshID).err = "RootProtected"
    /\ DeleteElementMutate(heap, xml.index, RootID).err = "RootProtected"
    /\ InsertBeforeMutate(heap, xml.index, "t", FreshID, RootID, NoText).err = "RootProtected"


(***************************************************************************)
(* Insert, Delete and Replace of a text buffer.                            *)
(***************************************************************************)
\* The positions and lengths the calls are tried with.
TextPositions == 0..(MaxLineLen + 1)

\* Strings without a line feed.
NoLFTexts == {<<>>, <<"a">>, <<"a", "b">>, <<CR>>, <<InvalidByte>>}

\* TextEditor.Insert / Delete: the editor after the call.
TextInsertCall(e, line, col, t) == execute(e, "insert", insertSpan(e.lines, line, col, t))
TextDeleteCall(e, line, col, length) == execute(e, "delete", deleteSpan(e.lines, line, col, length))

\* C12: for any text buffer (the empty buffer with l = 1, c = 1 included) and
\* any string s without a line feed, a successful Insert(l, c, s) followed by
\* Delete(l, c, number of code points of s) leaves lines as they were before
\* the Insert.
C12_InsertDeleteRoundTrip ==
    \A line \in TextPositions, col \in TextPositions, s \in NoLFTexts :
        ~insertSpan(text.lines, line, col, s).err =>
            TextDeleteCall(TextInsertCall(text, line, col, s),
                           line, col, RuneCountInString(s)).lines = text.lines

\* What the two calls leave of the lines ls when they address the given line:
\* an empty buffer has become one empty line, and the addressed line has gone
\* through []rune, which turns every invalid byte into U+FFFD.
Decoded(ls, line) ==
    IF Len(ls) = 0 THEN << <<>> >> ELSE [ls EXCEPT ![line] = RunesToString(ToRunes(@))]

\* C12 (amended): a successful Insert(l, c, s) of a string without a line feed
\* followed by Delete(l, c, number of code points of s) leaves every line as it
\* was before the Insert, except that an empty buffer is left holding one empty
\* line and the invalid bytes of the addressed line are left as U+FFFD.
C12_RoundTripUpToDecoding ==
    \A line \in TextPositions, col \in TextPositions, s \in NoLFTexts :
        ~insertSpan(text.lines, line, col, s).err =>
            TextDeleteCall(TextInsertCall(text, line, col, s),
                           line, col, RuneCountInString(s)).lines = Decoded(text.lines, line)

\* Insert(1, 1, s) and Delete(1, 1, 1) have run, one after the other, on the
\* empty buffer, which now holds one empty line.
C12_Witness ==
    /\ tcall = [op |-> "delete", err |-> FALSE]
    /\ Len(text.undoStack) = 2
    /\ text.undoStack[1].description = "insert"
    /\ text.undoStack[1].before = <<>>
    /\ \E s \in NoLFTexts :
          /\ insertSpan(<<>>, 1, 1, s) = [err |-> FALSE, lines |-> text.undoStack[1].after]
          /\ deleteSpan(text.undoStack[2].before, 1, 1, RuneCountInString(s))
                = [err |-> FALSE, lines |-> text.lines]
    /\ text.undoStack[2].before = text.undoStack[1].after
    /\ text.lines = << <<>> >>


\* TextEditor.Replace: the editor after the call.
TextReplaceCall(e, line, col, length, t) ==
    execute(e, "replace", replaceMutate(e.lines, line, col, length, t))

\* C13: Replace(line, col, length, text) succeeds exactly when
\* Delete(line, col, length) succeeds, leaves the lines that Delete followed by
\* Insert(line, col, text) leaves, and pushes one undo record, so that one Undo
\* brings back the lines from before the Replace.
C13_ReplaceIsDeleteThenInsert ==
    \A line \in TextPositions, col \in TextPositions, length \in TextPositions,
       t \in TextArgs \cup NoLFTexts :
        LET d == deleteSpan(text.lines, line, col, length)
            r == replaceMutate(text.lines, line, col, length, t)
            replaced == TextReplaceCall(text, line, col, length, t)
            deleted == TextDeleteCall(text, line, col, length)
        IN /\ r.err = d.err
           /\ ~d.err =>
                /\ ~insertSpan(deleted.lines, line, col, t).err
                /\ replaced.lines = TextInsertCall(deleted, line, col, t).lines
                /\ Len(replaced.undoStack) = Len(text.undoStack) + 1
                /\ Top(replaced.undoStack).description = "replace"
                /\ TextUndoApply(replaced).lines = text.lines
                /\ TextUndoApply(replaced).undoStack = text.undoStack
           /\ d.err => replaced = text

\* A Replace that changed the lines has run and one Undo has brought back the
\* lines from before it.
C13_Witness ==
    /\ tcall = [op |-> "undo", err |-> FALSE]
    /\ tmon.stage = "undos" /\ tmon.undone = 1 /\ tmon.op = "replace"
    /\ text.lines = tmon.pres[Len(tmon.pres)]
    /\ tmon.post # text.lines
    /\ Top(text.redoStack).description = "replace"
    /\ Len(tmon.post) > Len(text.lines)


(***************************************************************************)
(* The statistics tracker.                                                 *)
(***************************************************************************)
TrackedPaths == Range(KnownPaths)

\* The worlds the calls that drive the tracker lead to from W when they close
\* no buffer: Load, Edit and Persist, with every argument, and a tick of the clock.
StatsCalls(W) ==
    {Load(W, path).W : path \in UserPaths}
    \cup {Edit(W, path).W : path \in UserPaths}
    \cup {Persist(W, order, SortedPaths).W : order \in Orders(DOMAIN W.editors)}
    \cup {[W EXCEPT !.stats = Tick(W.stats)]}

\* No Duration is smaller in V than it is now, but that of the path gone.
NotDecreased(V, gone) ==
    \A p \in TrackedPaths :
        IF p = gone THEN StatsDuration(V.stats, p) = 0
        ELSE StatsDuration(V.stats, p) >= StatsDuration(stats, p)

\* Close(abs) gave r: the path whose buffer it closed, none when it failed.
Gone(abs, r) == IF r.err THEN EmptyPath ELSE abs

\* C14: with a clock that never goes back, Duration(p) never decreases, for
\* every path p, over the Switch, StopAll and Close calls that Load, Edit,
\* Close and Persist make.
C14_DurationNeverDecreases ==
    /\ \A V \in StatsCalls(World) : NotDecreased(V, EmptyPath)
    /\ \A path \in UserPaths, answer \in Answers :
          NotDecreased(Close(World, path, answer).W, EmptyPath)

\* C14 (amended): Duration(p) never decreases over Switch, StopAll and the
\* Close of another path; the Close of p itself drops p's entry, so that
\* Duration(p) is zero after it.
C14_DurationDecreasesOnlyByClose ==
    /\ \A V \in StatsCalls(World) : NotDecreased(V, EmptyPath)
    /\ \A path \in UserPaths, answer \in Answers :
          NotDecreased(Close(World, path, answer).W,
                       Gone(resolvePath(Target(World, path)).abs, Close(World, path, answer)))

\* A buffer that had been active for some time has been closed: its duration was
\* positive before the call and is zero now.
C14_Witness ==
    /\ wcall.op = "close" /\ ~wcall.err
    /\ wcall.was > 0
    /\ spent[wcall.abs] > 0
    /\ StatsDuration(stats, wcall.abs) = 0
    /\ wcall.abs \notin DOMAIN stats.durations

\* The step is a call in which setActive signalled the tracker.
Switches ==
    /\ calls' = calls + 1
    /\ ~wcall'.err
    /\ active' # active

\* C15: over Switch(prev, next) calls whose prev is the tracker's active path,
\* Duration(p) is the time the clock counted while p was the active path: each
\* Switch adds now - started to durations[prev] and to no other entry, and
\* starts the timer of next at now, with durations[next] zero if it is new.
C15_DurationIsActiveTime ==
    /\ [](/\ stats.active = active
          /\ \A p \in TrackedPaths : StatsDuration(stats, p) = spent[p])
    /\ [][Switches =>
            /\ stats'.active = active'
            /\ stats'.started = stats.clock
            /\ active' \in DOMAIN stats'.durations
            /\ \A p \in TrackedPaths :
                  Accrued(stats', p) =
                    Accrued(stats, p)
                    + (IF p = active THEN stats.clock - stats.started ELSE 0)]_vars

\* Edit has switched back to a buffer that had been active before, after time
\* had passed on both buffers, and time has passed since.
C15_Witness ==
    /\ wcall.op = "edit" /\ ~wcall.err
    /\ wcall.prev # EmptyPath /\ wcall.prev # wcall.abs
    /\ stats.active = wcall.abs
    /\ Accrued(stats, wcall.abs) > 0
    /\ Accrued(stats, wcall.prev) > 0
    /\ stats.clock > stats.started
    /\ spent[wcall.abs] = Accrued(stats, wcall.abs) + (stats.clock - stats.started)


(***************************************************************************)
(* The logger.                                                             *)
(***************************************************************************)
\* The source files a log is kept for.
LogSources == {PathA, PathB, PathC, PathUnderFile}

\* The lines of the log of F, as Show(F) gives them.
LogLines(d, F) ==
    LET ls == SplitLF(Stat(d, LogFilePath(F)).units)
    IN IF ls[Len(ls)] = <<>> THEN SliceTo(ls, Len(ls) - 1) ELSE ls

\* The number of session-start lines in the log of F.
SessionLines(d, F) ==
    Cardinality({i \in 1..Len(LogLines(d, F)) : LogLines(d, F)[i] = SessionStart})

\* os.OpenFile(logPath, O_APPEND|O_CREATE) can succeed for the log of F.
Writable(d, F) == ~LogAppend(d, F, <<>>).err

\* The worlds the calls that reach the logger lead to from W: Load, Init,
\* Restore, Enable, Disable and Handle, with every argument.
LogCalls(W) ==
    {Load(W, path).W : path \in UserPaths}
    \cup UNION {{Init(W, kind, path, withLog).W : kind \in InitKinds(path), withLog \in BOOLEAN} :
                   path \in UserPaths}
    \cup {Restore(W).W}
    \cup {Enable(W, path) : path \in LogPaths}
    \cup {Disable(W, path) : path \in LogPaths}
    \cup {Handle(W, evt) : evt \in Events}

\* Enable(F) led from W to V: logging is on for F, and the log of F got its
\* session-start line if it had none in this process and can be written.
EnabledOnce(W, F, V) ==
    /\ F \in V.logger.enabled
    /\ IF F \in W.logger.sessionStarted \/ ~Writable(W.disk, F)
       THEN V.disk = W.disk
       ELSE LogLines(V.disk, F) = Append(LogLines(W.disk, F), SessionStart)

\* C16: in one process the log of a path F gets at most one session-start line,
\* whatever Enable, Disable, Restore, Load and Init calls are made: the first
\* Enable(F) that can write the log writes exactly one, and once it is there no
\* call adds another or changes the log of F except by appending.
C16_OneSessionStart ==
    /\ \A F \in LogSources :
          /\ SessionLines(disk, F) <= 1
          /\ F \in logger.sessionStarted <=> SessionLines(disk, F) = 1
          /\ SessionLines(disk, F) = 1 =>
                \A V \in LogCalls(World) : SessionLines(V.disk, F) = 1
    /\ \A path \in LogPaths : EnabledOnce(World, Abs(path), Enable(World, path))

\* a.txt was loaded, which enabled its log, a command was logged for it, and
\* log-on a.txt has been called since: the log still has one session start.
C16_Witness ==
    /\ wcall.op = "log-on" /\ wcall.abs = PathA
    /\ PathA \in DOMAIN editors
    /\ PathA \in logger.enabled
    /\ Len(LogLines(disk, PathA)) = 2
    /\ LogLines(disk, PathA)[1] = SessionStart
    /\ LogLines(disk, PathA)[2] # SessionStart

\* s ends in t.
EndsIn(s, t) == Len(t) <= Len(s) /\ SliceFrom(s, Len(s) - Len(t)) = t

\* The files of d and e are the same but for the log of F.
SameBut(d, e, F) ==
    \A p \in (DOMAIN d \cup DOMAIN e) \ {LogFilePath(F)} : Stat(d, p) = Stat(e, p)

\* Handle(e) is due to write: e is a command event for a file whose logging is on.
Logged(e) ==
    e.Type = EventCommandExecuted /\ e.File # EmptyPath /\ e.File \in logger.enabled

\* C17: Handle(e) appends exactly one line, ending in e.raw, to the log of e.file
\* when e is a command_executed event, e.file is not empty and is enabled, and it
\* changes no file otherwise; the lines a log had stay as they were, in their order.
C17_HandleAppendsRaw ==
    \A e \in Events :
        IF Logged(e)
        THEN /\ \E lines \in {LogLines(Handle(World, e).disk, e.File)} :
                  /\ Len(lines) = Len(LogLines(disk, e.File)) + 1
                  /\ SliceTo(lines, Len(lines) - 1) = LogLines(disk, e.File)
                  /\ EndsIn(lines[Len(lines)], e.Raw)
             /\ SameBut(disk, Handle(World, e).disk, e.File)
        ELSE Handle(World, e) = World

\* C17 (amended): when e is a command_executed event, e.file is not empty and is
\* enabled, and the log can be written, Handle(e) appends to the log of e.file
\* the text "<timestamp> <raw>" with the white space at its ends removed, and a
\* line feed: exactly one line, ending in e.raw, when e.raw holds no line feed
\* and does not end in white space.  In every other case (a failed append among
\* them) it changes no file.  It never changes what a log held before, nor the
\* logger.
C17_HandleAppendsTrimmedLine ==
    \A e \in Events :
        IF Logged(e) /\ Writable(disk, e.File)
        THEN \E got \in {Handle(World, e)} :
               /\ Stat(got.disk, LogFilePath(e.File)).units =
                    Stat(disk, LogFilePath(e.File)).units \o TrimSpace(EventLine(e)) \o <<LF>>
               /\ SameBut(disk, got.disk, e.File)
               /\ got = [World EXCEPT !.disk = got.disk]
               /\ SliceTo(LogLines(got.disk, e.File), Len(LogLines(disk, e.File)))
                     = LogLines(disk, e.File)
               /\ (TrimRight(e.Raw) = e.Raw /\ \A i \in 1..Len(e.Raw) : e.Raw[i] # LF) =>
                     /\ Len(LogLines(got.disk, e.File)) = Len(LogLines(disk, e.File)) + 1
                     /\ EndsIn(LogLines(got.disk, e.File)[Len(LogLines(disk, e.File)) + 1], e.Raw)
        ELSE Handle(World, e) = World

\* A command event for c.txt has been handled while its logging was on: its log
\* holds the session start and, after it, the line of the command.
C17_Witness ==
    /\ wcall.op = "handle" /\ wcall.abs = PathC
    /\ PathC \in logger.enabled
    /\ LogLines(disk, PathC) = <<SessionStart, Stamp \o <<SPACE, "x">> >>


(***************************************************************************)
(* The event bus.                                                          *)
(***************************************************************************)
\* The step is Publish(e).
Publishes(e) == bmon'.published = Append(bmon.published, e)

\* e, n times
Repeat(e, n) == [i \in 1..n |-> e]

\* The number of times o is subscribed.
Subscriptions(o) == Cardinality({i \in 1..Len(bus.listeners) : bus.listeners[i] = o})

\* What o has been handed, taken from the Handle calls in the order they were made.
HandedTo(o) ==
    LET mine == SelectSeq(bus.delivered, LAMBDA c : c.to = o)
    IN [i \in 1..Len(mine) |-> mine[i].e]

\* C18: Publish(e) hands e exactly once to every listener subscribed before it,
\* in the order the listeners subscribed and before it returns; each listener
\* sees the events of successive Publish calls in the order they were published.
C18_DeliveredOnceInOrder ==
    [][\A e \in BusEvents : Publishes(e) =>
          /\ \A o \in Observers :
                bus'.received[o] =
                  IF o \in Range(bus.listeners) THEN Append(bus.received[o], e)
                  ELSE bus.received[o]
          /\ bus'.delivered =
                bus.delivered \o [i \in 1..Len(Dedup(bus.listeners, {})) |->
                                    [to |-> Dedup(bus.listeners, {})[i], e |-> e]]]_vars

\* C18 (amended): Publish(e) hands e once per subscription, in the order of the
\* subscriptions made before it and before it returns, so that a listener
\* subscribed n times is handed e n times; each listener sees the events of
\* successive Publish calls in the order they were published.
C18_DeliveredOncePerSubscription ==
    /\ [][\A e \in BusEvents : Publishes(e) =>
            /\ \A o \in Observers :
                  bus'.received[o] = bus.received[o] \o Repeat(e, Subscriptions(o))
            /\ bus'.delivered =
                  bus.delivered \o [i \in 1..Len(bus.listeners) |->
                                      [to |-> bus.listeners[i], e |-> e]]
            /\ bus'.listeners = bus.listeners]_vars
    /\ [](/\ bus.delivered = [i \in 1..Len(bmon.due) |->
                                [to |-> bmon.due[i].to, e |-> bmon.published[bmon.due[i].pub]]]
          /\ \A i, j \in 1..Len(bmon.due) : i <= j => bmon.due[i].pub <= bmon.due[j].pub
          /\ \A o \in Observers : bus.received[o] = HandedTo(o))

\* obs2 subscribed, an event was published, obs1 and obs2 (again) subscribed and
\* another event was published.
C18_Witness ==
    /\ bus.listeners = <<"obs2", "obs1", "obs2">>
    /\ Len(bmon.published) = 2
    /\ bmon.published[1] # bmon.published[2]
    /\ bus.received["obs1"] = <<bmon.published[2]>>
    /\ bus.received["obs2"] = <<bmon.published[1], bmon.published[2], bmon.published[2]>>
    /\ bus.delivered[Len(bus.delivered)].to = "obs2"

(***************************************************************************)
(* Sessions.                                                               *)
(***************************************************************************)
\* The file of a persisted entry is on disk and loads.
Restorable(entry) ==
    /\ Stat(disk, entry.Path).kind # "none"
    /\ ~Load(NewProcess(World), entry.Path).err

\* The world V is the persisted session: the persisted editors whose files are
\* on disk and load are open, with the persisted modified flag, no other buffer
\* is, and the persisted active path is active if it is open.
SessionOf(V) ==
    /\ DOMAIN V.editors =
         {stateFile.Editors[i].Path : i \in {j \in 1..Len(stateFile.Editors) :
                                               Restorable(stateFile.Editors[j])}}
    /\ \A i \in 1..Len(stateFile.Editors) :
         Restorable(stateFile.Editors[i]) =>
           IsModified(V.editors[stateFile.Editors[i].Path]) = stateFile.Editors[i].Modified
    /\ stateFile.Active \in DOMAIN V.editors => V.active = stateFile.Active
    /\ V.stateFile = stateFile

\* C19: Restore in a new workspace opens every persisted editor whose file is on
\* disk and loads, with the persisted modified flag, opens no other buffer, and
\* makes the persisted active path active if that path is open afterwards.
C19_RestoreReproducesSession ==
    stateFile.present => SessionOf(Restore(NewProcess(World)).W)

\* A session with a.txt and the new, unsaved c.txt was persisted and a new process
\* restored it: a.txt is open, unmodified and active, c.txt is not open.
C19_Witness ==
    /\ wcall.op = "restart"
    /\ stateFile.present
    /\ Len(stateFile.Editors) = 2
    /\ \E i \in 1..2 : stateFile.Editors[i] = [Path |-> PathA, Modified |-> FALSE]
    /\ \E i \in 1..2 : stateFile.Editors[i].Path = PathC
    /\ stateFile.Active = PathA
    /\ DOMAIN editors = {PathA}
    /\ ~IsModified(editors[PathA])
    /\ active = PathA

\* C20: after Restore in a new process the paths whose logging is enabled are
\* exactly those of the persisted logging list.
C20_EnabledIsPersistedList ==
    stateFile.present =>
        Restore(NewProcess(World)).W.logger.enabled = Range(stateFile.Logging)

\* Logging is enabled in V for the persisted logging list and for the buffers
\* of V that carry the log marker.
EnabledListedAndMarked(V) ==
    /\ Range(stateFile.Logging) \subseteq V.logger.enabled
    /\ V.logger.enabled =
         Range(stateFile.Logging) \cup {p \in DOMAIN V.editors : HasLogMarker(V.editors[p])}

\* C20 (amended): after Restore in a new process logging is enabled for every path
\* of the persisted logging list and, besides them, for every restored buffer
\* that carries the log marker, whether or not its logging was on at Persist.
C20_EnabledIsPersistedListAndMarked ==
    stateFile.present => EnabledListedAndMarked(Restore(NewProcess(World)).W)

\* a.txt, which starts with "# log", was open with its logging switched off when
\* the session was persisted; the new process has its logging on.
C20_Witness ==
    /\ wcall.op = "restart"
    /\ stateFile.present
    /\ PathA \notin Range(stateFile.Logging)
    /\ PathA \in DOMAIN editors
    /\ PathA \in logger.enabled
    /\ logger.enabled # Range(stateFile.Logging)


(***************************************************************************)
(* Edits of the buffers the workspace holds.                               *)
(***************************************************************************)
XmlEdits(b) == XmlEditsOn(b.ed.xml, cloneTree(b.ed.heap, b.ed.xml.root, Nil))

\* The step is a successful call op of the workspace.
Succeeds(op) ==
    /\ calls' = calls + 1
    /\ wcall'.op = op /\ ~wcall'.err

\* The buffer that is active after the call that gave r is modified.
ActiveModified(r) == ~r.err => IsModified(r.W.editors[r.W.active])

\* C21: in both kinds of buffer modified is true after every successful edit and
\* after every successful Undo or Redo, also when the content is then what was
\* saved; a successful Save of a buffer leaves its modified false.
C21_ModifiedAfterEditAndSave ==
    /\ \A p \in DOMAIN editors :
          /\ IF editors[p].type = "text"
             THEN \A r \in TextEdits(editors[p].ed) : ~r.err => r.ed.modified
             ELSE \A r \in XmlEdits(editors[p]) : r.err = "" => r.xml.modified
          /\ \A r \in {BufferUndo(editors[p]), BufferRedo(editors[p])} :
                ~r.err => IsModified(r.b)
    /\ ActiveModified(EditActive(World, <<"x">>, "t", "a", "root"))
    /\ ActiveModified(Undo(World))
    /\ ActiveModified(Redo(World))
    /\ \A path \in UserPaths :
          ~Save(World, path).err =>
              ~IsModified(Save(World, path).W.editors[resolvePath(Target(World, path)).abs])

\* a.txt was loaded and edited and the edit was undone: its lines are those of
\* the file again and modified is true.
C21_Witness ==
    /\ wcall.op = "undo" /\ ~wcall.err
    /\ active = PathA
    /\ editors[PathA].type = "text"
    /\ Content(editors[PathA]).entry.units = Stat(disk, PathA).units
    /\ IsModified(editors[PathA])

(***************************************************************************)
(* Load of a path without the .xml suffix.                                 *)
(***************************************************************************)
\* Load(path) reaches the text branch: the path resolves, is not open, and has
\* another suffix than .xml.
OpensText(path) ==
    /\ ~resolvePath(path).err
    /\ resolvePath(path).abs \notin DOMAIN editors
    /\ ToLower(Ext(resolvePath(path).abs)) # <<".", "xml">>

\* r is a successful Load that registered and activated a text buffer at abs.
LoadedText(r, abs) ==
    /\ ~r.err
    /\ abs \in DOMAIN r.W.editors
    /\ r.W.editors[abs].type = "text"
    /\ r.W.active = abs
    /\ r.ret = BufferAt(r.W, abs)

LoadedEmpty(r, abs) ==
    LoadedText(r, abs) /\ r.W.editors[abs].ed.lines = <<>> /\ r.W.editors[abs].ed.modified

LoadedClean(r, abs) ==
    LoadedText(r, abs) /\ ~r.W.editors[abs].ed.modified

\* C22 as stated: Load of a path without the .xml suffix that is not open
\* succeeds with an empty, modified, registered and active text buffer whenever
\* no file is at the path, and with an unmodified buffer when a file is there.
C22_MissingFileLoadsEmpty ==
    \A path \in OpenPaths :
        OpensText(path) =>
            /\ (Stat(disk, resolvePath(path).abs).kind = "none"
                  => LoadedEmpty(Load(World, path), resolvePath(path).abs))
            /\ (Stat(disk, resolvePath(path).abs).kind = "file"
                  => LoadedClean(Load(World, path), resolvePath(path).abs))

\* Load gave r and a text buffer at abs that was not open in W: the buffer is
\* active, empty and modified when nothing is at abs, unmodified otherwise.
OpenedAsFound(W, abs, r) ==
    (OpenedFresh(W, r) /\ r.W.editors[abs].type = "text") =>
        /\ r.W.active = abs
        /\ IF Stat(W.disk, abs).kind = "none"
           THEN r.W.editors[abs].ed.lines = <<>> /\ r.W.editors[abs].ed.modified
           ELSE ~r.W.editors[abs].ed.modified

\* C22 amended: the same when the stat of the path reports that it does not
\* exist; a path under a regular file is not opened, Load fails on the stat
\* error and changes nothing.
C22_NotExistLoadsEmpty ==
    \A path \in OpenPaths :
        /\ OpensText(path) =>
              /\ (IsNotExist(disk, resolvePath(path).abs)
                    => LoadedEmpty(Load(World, path), resolvePath(path).abs))
              /\ (Stat(disk, resolvePath(path).abs).kind = "file"
                    => LoadedClean(Load(World, path), resolvePath(path).abs))
              /\ (UnderFile(disk, resolvePath(path).abs)
                    => Load(World, path) = Fail(World))
        /\ OpenedAsFound(World, resolvePath(path).abs, Load(World, path))

\* Load has just opened c.txt, which is not on the disk.
C22_Witness ==
    /\ wcall.op = "load" /\ ~wcall.err /\ wcall.fresh /\ wcall.abs = PathC
    /\ Stat(disk, PathC).kind = "none"
    /\ active = PathC
    /\ editors[PathC].ed.lines = <<>>
    /\ editors[PathC].ed.modified

(***************************************************************************)
(* A failing Load or Init.                                                 *)
(***************************************************************************)
\* The world with the document doc in the file b.xml.
WithDocument(doc) == [World EXCEPT !.disk = (PathB :> XmlFile(doc)) @@ disk]

\* The call r = [err, W, ret] made on the world W0 failed and changed nothing.
FailedUnchanged(r, W0) == r.err => r.W = W0

\* The step is a failing call of op.
Fails(op) == calls' = calls + 1 /\ wcall'.op = op /\ wcall'.err

\* C23: a Load that fails (no .xml file, a document the parser rejects, a
\* directory) and an Init that fails (the file exists, the kind is unknown)
\* leave editors, active, history, the logger and the tracker as they were.
C23_FailedOpenChangesNothing ==
    \A path \in OpenPaths :
        /\ FailedUnchanged(Load(World, path), World)
        /\ \A doc \in ParseDocs :
               FailedUnchanged(Load(WithDocument(doc), path), WithDocument(doc))
        /\ \A kind \in InitKinds(path), withLog \in BOOLEAN :
               FailedUnchanged(Init(World, kind, path, withLog), World)

\* With a.txt open, a Load or an Init has just failed.
C23_Witness ==
    /\ wcall.op \in {"load", "init"} /\ wcall.err
    /\ active = PathA /\ history = <<PathA>> /\ DOMAIN editors = {PathA}
    /\ PathA \in logger.enabled
    /\ Load(World, RelPath(<<NameB>>)).err
    /\ \E doc \in ParseDocs : Load(WithDocument(doc), RelPath(<<NameB>>)).err
    /\ Load(World, RelPath(<<NameD>>)).err
    /\ Init(World, <<"text">>, RelPath(<<NameA>>), TRUE).err
    /\ Init(World, <<"pdf">>, RelPath(<<NameC>>), TRUE).err

(***************************************************************************)
(* Auto-logging on Load.                                                   *)
(***************************************************************************)
\* Files c.txt may hold: the marker between spaces, the marker without its
\* space, the marker on the second line, the marker followed by a word.
MarkerTexts ==
    { <<SPACE>> \o LogMarker \o <<SPACE, CR, LF, "a">>,
      <<"#", "l", "o", "g", LF>>,
      <<"a", LF>> \o LogMarker,
      LogMarker \o <<SPACE, "a">> }

\* The world with the text units in the file c.txt.
WithText(units) == [World EXCEPT !.disk = (PathC :> TextFile(units)) @@ disk]

\* The buffer carries the marker: a text whose first line is "# log" between
\* white space, a document whose root has log="true" in any case.
AsksForLog(b) ==
    IF b.type = "text"
    THEN /\ b.ed.lines # <<>>
         /\ \E i, j \in 1..Len(b.ed.lines[1]) :
                /\ SubSeq(b.ed.lines[1], i, j) = LogMarker
                /\ \A k \in 1..Len(b.ed.lines[1]) : k < i \/ k > j => IsSpace(b.ed.lines[1][k])
    ELSE /\ b.ed.xml.root # Nil
         /\ \E i \in 1..Len(b.ed.heap[b.ed.xml.root].Attributes) :
                /\ b.ed.heap[b.ed.xml.root].Attributes[i].Name = "log"
                /\ b.ed.heap[b.ed.xml.root].Attributes[i].Value \in {"true", "TRUE", "True"}
                /\ \A k \in (i + 1)..Len(b.ed.heap[b.ed.xml.root].Attributes) :
                       b.ed.heap[b.ed.xml.root].Attributes[k].Name # "log"

\* The enabled set after the Load r of abs on the world W0, when it opened a buffer.
AutoLogged(r, W0, abs) ==
    (~r.err /\ abs \notin DOMAIN W0.editors) =>
        r.W.logger.enabled = IF AsksForLog(r.W.editors[abs])
                             THEN W0.logger.enabled \cup {abs}
                             ELSE W0.logger.enabled

\* C24: a Load that opens a new buffer adds its path to the enabled set when
\* the buffer carries the marker, and leaves the enabled set as it was otherwise.
C24_AutoLogOnLoad ==
    \A path \in OpenPaths :
        /\ AutoLogged(Load(World, path), World, resolvePath(path).abs)
        /\ \A doc \in ParseDocs :
               AutoLogged(Load(WithDocument(doc), path), WithDocument(doc),
                          resolvePath(path).abs)
        /\ \A units \in MarkerTexts :
               AutoLogged(Load(WithText(units), path), WithText(units),
                          resolvePath(path).abs)

\* Load has just opened b.xml, whose root has log="true", after c.txt, which
\* has no marker, was opened: b.xml is logged and c.txt is not.
C24_Witness ==
    /\ wcall.op = "load" /\ ~wcall.err /\ wcall.fresh /\ wcall.abs = PathB
    /\ editors[PathB].type = "xml" /\ AsksForLog(editors[PathB])
    /\ PathB \in logger.enabled
    /\ PathC \in DOMAIN editors /\ PathC \notin logger.enabled
    /\ \E units \in MarkerTexts : ~Load(WithText(units), PathA).err

(***************************************************************************)
(* The undo and redo stacks across an edit.                                *)
(***************************************************************************)
UndoStackOf(b) == IF b.type = "text" THEN b.ed.undoStack ELSE b.ed.xml.undoStack
RedoStackOf(b) == IF b.type = "text" THEN b.ed.redoStack ELSE b.ed.xml.redoStack

\* The stacks after an edit that failed or not, against the stacks before it:
\* one record more and nothing to redo on success, the same redo stack on failure.
StacksAfterEdit(failed, undo, redo, undo0, redo0) ==
    IF failed THEN redo = redo0
    ELSE /\ redo = <<>>
         /\ Len(undo) = Len(undo0) + 1
         /\ SliceTo(undo, Len(undo0)) = undo0

\* The edit of the active buffer of W that gave r: on success the stacks of the
\* buffer are those of an edit and a Redo right after it fails; on failure no
\* buffer has changed.
EditedActive(W, r) ==
    IF r.err THEN r.W.editors = W.editors
    ELSE /\ StacksAfterEdit(FALSE, UndoStackOf(r.W.editors[r.W.active]),
                            RedoStackOf(r.W.editors[r.W.active]),
                            UndoStackOf(W.editors[W.active]), RedoStackOf(W.editors[W.active]))
         /\ Redo(r.W).err

\* C29: in both kinds of buffer a successful edit empties the redo stack and
\* pushes one undo record, so a Redo right after it fails; a failing edit
\* leaves the redo stack as it was.
C29_EditClearsRedo ==
    /\ \A p \in DOMAIN editors :
          IF editors[p].type = "text"
          THEN \A r \in TextEdits(editors[p].ed) :
                  /\ StacksAfterEdit(r.err, r.ed.undoStack, r.ed.redoStack,
                                     editors[p].ed.undoStack, editors[p].ed.redoStack)
                  /\ (~r.err => BufferRedo([editors[p] EXCEPT !.ed = r.ed]).err)
          ELSE \A r \in XmlEdits(editors[p]) :
                  /\ StacksAfterEdit(r.err # "", r.xml.undoStack, r.xml.redoStack,
                                     editors[p].ed.xml.undoStack, editors[p].ed.xml.redoStack)
                  /\ (r.err = "" => XmlRedoApply(r.xml, r.heap).err = "HistoryEmpty")
    /\ EditedActive(World, EditActive(World, <<"x">>, "t", "a", "root"))

\* An edit of b.xml has just been undone: the buffer has a record to redo, and
\* edits that succeed and edits that fail.
C29_Witness ==
    /\ wcall.op = "undo" /\ ~wcall.err
    /\ active = PathB /\ editors[PathB].type = "xml"
    /\ RedoStackOf(editors[PathB]) # <<>>
    /\ \E r \in XmlEdits(editors[PathB]) : r.err # ""
    /\ \E r \in XmlEdits(editors[PathB]) : r.err = ""

(***************************************************************************)
(* The statistics of a closed buffer.                                      *)
(***************************************************************************)
\* The tracker s holds nothing about p.
NoStatistics(s, p) ==
    /\ p \notin DOMAIN s.durations
    /\ s.active # p
    /\ StatsDuration(s, p) = 0

\* C30: a successful Close(p) leaves p without a statistics entry and with
\* Duration(p) zero, also after the switch to the buffer that becomes active;
\* no time is counted for a path that is not open, and a Load that opens p
\* again starts it at zero.
C30_ClosedHasNoStatistics ==
    /\ \A p \in TrackedPaths : p \notin DOMAIN editors => NoStatistics(stats, p)
    /\ \A path \in UserPaths, answer \in Answers :
          ~Close(World, path, answer).err =>
              NoStatistics(Close(World, path, answer).W.stats,
                           resolvePath(Target(World, path)).abs)
    /\ \A path \in UserPaths :
          OpenedFresh(World, Load(World, path)) =>
              /\ Accrued(Load(World, path).W.stats, resolvePath(path).abs) = 0
              /\ StatsDuration(Load(World, path).W.stats, resolvePath(path).abs) = 0

\* a.txt was active for some time and was closed, c.txt became active and
\* counted time, and a.txt has just been loaded again: it starts at zero.
C30_Witness ==
    /\ wcall.op = "load" /\ ~wcall.err /\ wcall.fresh /\ wcall.abs = PathA
    /\ spent[PathA] > 0
    /\ StatsDuration(stats, PathA) = 0
    /\ PathC \in DOMAIN editors
    /\ StatsDuration(stats, PathC) = spent[PathC]
    /\ spent[PathC] > 0

(***************************************************************************)
(* The event of a command and its line in the log.                         *)
(***************************************************************************)
\* The files a command can be about: a.txt, b.xml and c.txt in each directory.
CommandFiles ==
    {AbsIn(wd, RelPath(<<name>>)) : wd \in WorkDirs, name \in {NameA, NameB, NameC}}

\* The step is one command of the dispatcher.
Commanded == calls' = calls + 1 /\ dcall'.cmd # ""

\* The log of F after the step holds what it held, then at most a session
\* start, then the lines given.
LogGrewBy(F, lines) ==
    \/ LogLines(disk', F) = LogLines(disk, F) \o lines
    \/ /\ F \notin logger.sessionStarted
       /\ LogLines(disk', F) = LogLines(disk, F) \o <<SessionStart>> \o lines

\* C25: a command publishes its command_executed event, and the logger writes
\* its line, after the operation has succeeded: the line is written exactly
\* when the target is enabled once the operation is done, and it is the last
\* line of the log, after the session start the operation may have written.  A
\* failing command publishes nothing and changes no log.
C25_EventAfterSuccess ==
    [][Commanded =>
         IF dcall'.err
         THEN /\ dcall'.published = <<>>
              /\ \A F \in CommandFiles :
                     Stat(disk', LogFilePath(F)) = Stat(disk, LogFilePath(F))
         ELSE /\ Len(dcall'.published) = 1
              /\ dcall'.published[1].Type = EventCommandExecuted
              /\ dcall'.published[1].File = dcall'.file
              /\ \A F \in CommandFiles :
                     IF F = dcall'.file /\ F \in logger'.enabled /\ Writable(disk, F)
                     THEN LogGrewBy(F, <<EventLine(dcall'.published[1])>>)
                     ELSE IF F = dcall'.file THEN LogGrewBy(F, <<>>)
                     ELSE Stat(disk', LogFilePath(F)) = Stat(disk, LogFilePath(F))]_vars

\* log-off a.txt has just succeeded on a log that was enabled: its event was
\* published after Disable, so the log ends in the line of an earlier command.
C25_Witness ==
    /\ dcall.cmd = "log-off" /\ ~dcall.err /\ dcall.file = PathA
    /\ Len(dcall.published) = 1
    /\ PathA \notin logger.enabled
    /\ PathA \in logger.sessionStarted
    /\ Len(LogLines(disk, PathA)) >= 2
    /\ LogLines(disk, PathA)[Len(LogLines(disk, PathA))] # EventLine(dcall.published[1])

(***************************************************************************)
(* The path a relative argument stands for.                                *)
(***************************************************************************)
\* The step is a successful command with the one relative path r as argument.
CommandedOn(r) ==
    /\ Commanded /\ ~dcall'.err
    /\ dcall'.args.n = 1 /\ dcall'.args.path = r

\* C26: a relative path r is resolved against the base directory by every
\* component, in every working directory: the key of the buffer, the path
\* log-on r enables and log-off r disables, and the file of the event of a
\* command on r are one absolute path.
C26_OnePathForAll ==
    [][\A r \in {RelPath(<<NameA>>), RelPath(<<NameC>>)} :
          CommandedOn(r) =>
              /\ dcall'.file = resolvePath(r).abs
              /\ (dcall'.cmd = "log-on" => resolvePath(r).abs \in logger'.enabled)
              /\ (dcall'.cmd = "log-off" => resolvePath(r).abs \notin logger'.enabled)
              /\ (dcall'.cmd \in {"load", "save", "edit"} =>
                     resolvePath(r).abs \in DOMAIN editors')]_vars

\* The same in a process whose working directory is the base directory.
C26_OnePathInBaseDir ==
    [][cwd = BaseDir =>
         \A r \in {RelPath(<<NameA>>), RelPath(<<NameC>>)} :
            CommandedOn(r) =>
                /\ dcall'.file = resolvePath(r).abs
                /\ (dcall'.cmd = "log-on" => resolvePath(r).abs \in logger'.enabled)
                /\ (dcall'.cmd = "log-off" => resolvePath(r).abs \notin logger'.enabled)]_vars

\* In a process started in /v, a.txt is open in the workspace of /w and
\* log-on a.txt has just enabled /v/a.txt.
C26_Witness ==
    /\ cwd # BaseDir
    /\ dcall.cmd = "log-on" /\ ~dcall.err /\ dcall.args.path = RelPath(<<NameA>>)
    /\ PathA \in DOMAIN editors
    /\ dcall.file = AbsIn(cwd, RelPath(<<NameA>>))
    /\ dcall.file \in logger.enabled
    /\ PathA \notin logger.enabled

(***************************************************************************)
(* Goroutines calling the logger.                                          *)
(***************************************************************************)
\* The step is the append of Handle in goroutine t.
Appends(t) == thr.th[t].pc = "append" /\ thr'.th[t].pc # "append"

\* The step changes the logger's maps.
LoggerChanges == logger' # logger

\* Every recorded call has returned.
Quiescent == \A i \in DOMAIN thr.hist : thr.hist[i].done

\* The order s keeps a call that had returned before another was made in
\* front of it.
InOrder(h, s) == \A a, b \in DOMAIN h : s[a] \in h[s[b]].prev => a < b

\* One call made alone, from its first to its last statement.
SerialStep(W, e) ==
    CASE e.op = "Enable" -> Enable(W, PathA)
      [] e.op = "Disable" -> Disable(W, PathA)
      [] e.op = "Handle" -> Handle(W, Event(EventCommandExecuted, e.raw, PathA))
      [] e.op = "ActivePaths" -> W

RECURSIVE Serial(_, _, _, _)
\* The world after the first i calls of h in the order s, one after the other.
Serial(W, h, s, i) == IF i = 0 THEN W ELSE SerialStep(Serial(W, h, s, i - 1), h[s[i]])

\* In the order s, one call after the other, every ActivePaths returns what
\* it has returned, and the maps and the files end as they are now.
Equivalent(h, s) ==
    /\ InOrder(h, s)
    /\ \A i \in DOMAIN h :
          h[s[i]].op = "ActivePaths" => h[s[i]].out = Serial(MainWorld, h, s, i - 1).logger.enabled
    /\ Serial(MainWorld, h, s, Len(h)).logger = logger
    /\ Serial(MainWorld, h, s, Len(h)).disk = disk

\* The step of goroutine t is the read of the flag in Handle.
Reads(t) == thr.th[t].pc = "read" /\ thr'.th[t].pc # "read"

\* C27: the operations of the logger are atomic with respect to each other.
\* Whenever the calls of Enable, Disable, Handle and ActivePaths made by the
\* goroutines have returned, there is an order of these calls, which keeps a
\* call that returned before another was made in front of it, such that the
\* calls made one after the other in that order return the same paths and
\* leave the same maps and the same log.  A Handle that reads the flag when the
\* path is disabled appends no line, a line is appended only by a Handle that
\* has read the path as enabled under the lock, and the Enable calls for one
\* path write one session-start line.
C27_LoggerOperationsAtomic ==
    /\ [](/\ (Quiescent => \E s \in Orders(DOMAIN thr.hist) : Equivalent(thr.hist, s))
          /\ SessionLines(disk, PathA) <= 1
          /\ (PathA \in logger.sessionStarted => SessionLines(disk, PathA) = 1))
    /\ [][/\ (LoggerChanges => (thr.mu # NoThread /\ thr'.th[thr.mu].pc = "idle"))
          /\ \A t \in Threads :
                /\ (Appends(t) => thr.th[t].seen)
                /\ ((Reads(t) /\ PathA \notin logger.enabled) =>
                      (thr'.th[t].pc = "idle" /\ disk' = disk))]_vars

\* A Handle has appended its line after a Disable made while it ran had
\* returned: the ActivePaths called after that Disable, and before the Handle
\* returned, found no path enabled.  All calls have returned.
C27_Witness ==
    /\ Quiescent
    /\ \E h, d, k \in DOMAIN thr.hist :
          /\ thr.hist[h].op = "Handle" /\ thr.hist[d].op = "Disable"
          /\ thr.hist[k].op = "ActivePaths"
          /\ h < d
          /\ d \in thr.hist[k].prev /\ h \notin thr.hist[k].prev
          /\ thr.hist[k].out = {}
          /\ \E i \in DOMAIN LogLines(disk, PathA) :
                LogLines(disk, PathA)[i]
                    = EventLine(Event(EventCommandExecuted, thr.hist[h].raw, PathA))
    /\ \A i \in DOMAIN thr.hist : thr.hist[i].op = "Enable" => thr.hist[i].t = Main

(***************************************************************************)
(* Goroutines calling the bus and the logger: the locks.                   *)
(***************************************************************************)
\* Goroutine t is at a statement that takes a lock which cannot be taken now.
Waits(t) ==
    \/ thr.th[t].pc = "mu.Lock" /\ thr.mu # NoThread
    \/ thr.th[t].pc = "bus.Locking" /\ ~CanLock(thr.rw)
    \/ thr.th[t].pc = "bus.RLock" /\ ~CanRLock(thr.rw)

\* Goroutine t has a step to take.
Runs(t) ==
    \/ thr.th[t].pc = "idle" /\ thr.th[t].left > 0
    \/ thr.th[t].pc # "idle" /\ ~Waits(t)

\* Every goroutine has made its calls.
AllDone == \A t \in Threads : thr.th[t].pc = "idle" /\ thr.th[t].left = 0

\* C28: goroutines calling Subscribe, Publish, Enable, Disable and Handle never
\* deadlock.  As long as a call is to be made or has not returned some
\* goroutine can run, and no goroutine waits for a lock that is never freed:
\* the holder of the logger's lock is never at a statement that takes the bus
\* lock and can always run; a holder of the bus lock can run, or waits for the
\* logger's lock alone.
C28_NoDeadlock ==
    [](/\ ~AllDone => \E u \in Threads : Runs(u)
       /\ \A t \in Threads : Waits(t) => \E u \in Threads \ {t} : Runs(u)
       /\ thr.mu # NoThread =>
             /\ thr.th[thr.mu].pc \notin {"bus.Lock", "bus.Locking", "bus.RLock"}
             /\ Runs(thr.mu)
       /\ thr.rw.w # NoThread => Runs(thr.rw.w)
       /\ \A t \in thr.rw.r : Runs(t) \/ (thr.th[t].pc = "mu.Lock" /\ Runs(thr.mu)))

\* A goroutine in Publish holds the bus lock for reading and the logger's
\* lock, while one goroutine waits for the bus lock in Subscribe and another
\* waits for the logger's lock.
C28_Witness ==
    \E t, u, v \in Threads :
        /\ t \in thr.rw.r /\ thr.mu = t
        /\ thr.th[u].pc = "bus.Locking" /\ Waits(u)
        /\ thr.th[v].pc = "mu.Lock" /\ Waits(v)

(***************************************************************************)
(* Close and the SaveDecider.                                              *)
(***************************************************************************)
\* init <kind> <path>, also on a path under the regular file a.txt, which
\* cannot be saved
WsCreate ==
    \E path \in OpenPaths, withLog \in BOOLEAN :
        \E kind \in InitKinds(path) :
            \E r \in {Init(World, kind, path, withLog)} :
                Call("init", resolvePath(path).abs, r)

CloseNext ==
    \/ WsOpen
    \/ WsCreate
    \/ WsSave
    \/ WsClose
    \/ WsEditActive

SpecClose == SpecInit /\ [][CloseNext]_vars

\* What the user types to close a buffer.
ClosePaths == OpenPaths

\* The workspace part of the world W: the buffers, the active path, the
\* history and the statistics.
Kept(W) == <<W.editors, W.active, W.history, W.stats>>

\* Close(path) with the decider's answer on the world W, r being its result and
\* abs the path it resolves to.
ClosedAsAsked(W, path, answer, r, abs) ==
    IF path = EmptyPath /\ W.active = EmptyPath THEN r = Fail(W)
    ELSE IF abs \notin DOMAIN W.editors THEN r = Fail(W)
    ELSE IF ~IsModified(W.editors[abs]) \/ answer \in {"absent", "no"}
    THEN \* nobody is asked, or the answer is no: the buffer goes unsaved
         /\ ~r.err
         /\ r.W = CloseRemove(W, abs)
         /\ r.W.disk = W.disk
         /\ abs \notin DOMAIN r.W.editors
    ELSE IF answer = "error"
    THEN r.err /\ r.W = W
    ELSE IF saveEditor(W, abs).err
    THEN r.err /\ Kept(r.W) = Kept(W) /\ abs \in DOMAIN r.W.editors
    ELSE \* yes: the file holds the content, then the buffer is removed
         /\ ~r.err
         /\ r.W.disk[abs] = Content(W.editors[abs]).entry
         /\ abs \notin DOMAIN r.W.editors
         /\ r.W = CloseRemove(Saved(W, abs, saveEditor(W, abs).disk), abs)

\* C31: Close asks the SaveDecider exactly when the buffer is modified and a
\* decider is configured (only then does the answer matter); on yes the buffer
\* is saved and then removed; when the decider fails or the save fails, Close
\* fails and editors, active, history and statistics are as before; Close of a
\* path that is not open, or of the empty path with no active buffer, fails
\* and changes nothing.
C31_ClosePromptsWhenModified ==
    /\ [](\A path \in ClosePaths, answer \in Answers :
            ClosedAsAsked(World, path, answer, Close(World, path, answer),
                          resolvePath(Target(World, path)).abs))
    /\ [][/\ (Fails("close") => UNCHANGED <<editors, active, history, stats>>)
          /\ (Succeeds("close") => wcall'.abs \notin DOMAIN editors')]_vars

\* The buffer on a.txt/x is modified and cannot be saved, and a Close has
\* just failed: the buffer is still open and active.
C31_Witness ==
    /\ wcall.op = "close" /\ wcall.err
    /\ PathUnderFile \in DOMAIN editors
    /\ active = PathUnderFile
    /\ IsModified(editors[PathUnderFile])
    /\ saveEditor(World, PathUnderFile).err

(***************************************************************************)
(* Lines and line feeds.                                                   *)
(***************************************************************************)
\* The texts the user appends and inserts: with line feeds in front, in the
\* middle and at the end, with CR-LF and with a lone CR.
SpliceTexts ==
    TextArgs \cup { <<LF>>, <<"a", LF, "b">>, <<LF, LF>>, <<"a", LF>>, <<LF, "b">>,
                    <<"a", CR, LF, LF, "b">>, <<CR>> }

\* No element of ls holds a line feed.
NoLineFeed(ls) == \A i \in DOMAIN ls : \A j \in DOMAIN ls[i] : ls[i][j] # LF

\* C32: no element of lines holds a line feed, in a buffer that Load or Init
\* made and after every Append, Insert, Delete, Replace, Undo and Redo on it:
\* the lines Load splits a file into hold none, every edit of a buffer without
\* a line feed gives lines without one, and so do the snapshots Undo and Redo
\* restore.
C32_NoLineFeedInLines ==
    /\ NoLineFeed(text.lines)
    /\ \A i \in DOMAIN text.undoStack :
          NoLineFeed(text.undoStack[i].before) /\ NoLineFeed(text.undoStack[i].after)
    /\ \A i \in DOMAIN text.redoStack :
          NoLineFeed(text.redoStack[i].before) /\ NoLineFeed(text.redoStack[i].after)
    /\ \A d \in FileData : NoLineFeed(splitLines(d))
    /\ NoLineFeed(NewTextEditor(<<LogMarker>>, TRUE).lines)
    /\ \A t \in SpliceTexts :
          /\ NoLineFeed(appendMutate(text.lines, t).lines)
          /\ \A line \in ArgInts, col \in ArgInts :
                /\ NoLineFeed(insertSpan(text.lines, line, col, t).lines)
                /\ \A length \in ArgInts :
                      NoLineFeed(replaceMutate(text.lines, line, col, length, t).lines)
    /\ \A line \in ArgInts, col \in ArgInts, length \in ArgInts :
          NoLineFeed(deleteSpan(text.lines, line, col, length).lines)

\* An Insert of a text with a line feed has just added a line.
C32_Witness ==
    /\ tcall.op = "insert" /\ ~tcall.err
    /\ text.undoStack # <<>>
    /\ Top(text.undoStack).description = "insert"
    /\ Top(text.undoStack).after = text.lines
    /\ Len(Top(text.undoStack).after) > Len(Top(text.undoStack).before)
    /\ Top(text.undoStack).before # <<>>

(***************************************************************************)
(* Insert of a text with line feeds.                                       *)
(***************************************************************************)
\* The number of line feeds in t.
LineFeeds(t) == Cardinality({i \in DOMAIN t : t[i] = LF})

RECURSIVE LengthBefore(_, _)
\* The units of the content in front of line n + 1: the first n lines, each
\* with the line feed after it.
LengthBefore(ls, n) == IF n = 0 THEN 0 ELSE LengthBefore(ls, n - 1) + Len(ls[n]) + 1

\* The content s with t put in after its first off units.
SpliceAt(s, off, t) == SubSeq(s, 1, off) \o t \o SubSeq(s, off + 1, Len(s))

\* The texts Insert is tried with.
InsertTexts == SpliceTexts \cup NoLFTexts

\* Insert(line, col, t) has turned the lines ls into new: k lines more for the
\* k line feeds of t (and one more on the empty buffer), the lines in front of
\* and behind the addressed line as they were, and the content of old with
\* text put in at the position of line:col.
Inserted(ls, new, line, col, t, old, put) ==
    /\ Len(new) = Len(ls) + LineFeeds(t) + (IF Len(ls) = 0 THEN 1 ELSE 0)
    /\ \A i \in 1..(line - 1) : new[i] = ls[i]
    /\ \A i \in (line + 1)..Len(ls) : new[i + LineFeeds(t)] = ls[i]
    /\ JoinLF(new) = SpliceAt(JoinLF(old), LengthBefore(old, line - 1) + col - 1, put)

\* C33: a successful Insert(line, col, text) with k line feeds in text adds k
\* lines (one more on the empty buffer), leaves the other lines as they were
\* and in order, and gives the old content with text put in at code point
\* col - 1 of the addressed line.
C33_InsertSplicesText ==
    \A line \in TextPositions, col \in TextPositions, t \in InsertTexts :
        ~insertSpan(text.lines, line, col, t).err =>
            Inserted(text.lines, insertSpan(text.lines, line, col, t).lines, line, col, t,
                     text.lines, t)

\* C33 amended: the same, the text being put in with every CR-LF turned into
\* LF, and the invalid bytes of the addressed line being left as U+FFFD; the
\* first fragment ends the left half and the last fragment begins the right
\* half of the addressed line.
C33_InsertSplicesNormalizedText ==
    \A line \in TextPositions, col \in TextPositions, t \in InsertTexts :
      ~insertSpan(text.lines, line, col, t).err =>
          /\ Inserted(text.lines, insertSpan(text.lines, line, col, t).lines,
                      line, col, t, Decoded(text.lines, line), ReplaceAllCRLF(t))
          /\ splitLineAtColumn(Decoded(text.lines, line)[line], col).left
                 \o splitWithKeep(t)[1]
               = SliceTo(insertSpan(text.lines, line, col, t).lines[line],
                         col - 1 + Len(splitWithKeep(t)[1]))
          /\ splitWithKeep(t)[Len(splitWithKeep(t))]
                 \o splitLineAtColumn(Decoded(text.lines, line)[line], col).right
               = SliceFrom(insertSpan(text.lines, line, col, t).lines[line + LineFeeds(t)],
                           IF LineFeeds(t) = 0
                           THEN col - 1 + Len(splitWithKeep(t)[1])
                                - Len(splitWithKeep(t)[Len(splitWithKeep(t))])
                           ELSE 0)

\* An Insert of "b", CR, LF behind the first code point of a line has just
\* split that line in two.
C33_Witness ==
    /\ tcall.op = "insert" /\ ~tcall.err
    /\ text.undoStack # <<>>
    /\ Top(text.undoStack).after = text.lines
    /\ \E line \in ArgInts, col \in ArgInts, t \in TextArgs :
          /\ col > 1 /\ LineFeeds(t) = 1 /\ t # ReplaceAllCRLF(t)
          /\ insertSpan(Top(text.undoStack).before, line, col, t)
                = [err |-> FALSE, lines |-> text.lines]

(***************************************************************************)
(* Log files that cannot be written.                                       *)
(***************************************************************************)
\* The calls that reach the logger, with every path a user can name.
QuietNext ==
    \/ WsCreate
    \/ WsRestore
    \/ LogEnable
    \/ LogHandle

SpecQuiet == SpecInit /\ [][QuietNext]_vars

\* W with a directory where the log file of each path of KnownPaths would be:
\* os.OpenFile of the log file fails.
Blocked(W) ==
    [W EXCEPT !.disk = [p \in {LogFilePath(q) : q \in Range(KnownPaths)} |-> DirEntry] @@ @]

\* The call gave the same on the blocked world as on the world: its error,
\* the buffers, the active path, the history, and the paths logged.
SameButLog(b, r) ==
    /\ b.err = r.err
    /\ b.ret = r.ret
    /\ b.W.editors = r.W.editors
    /\ b.W.active = r.W.active
    /\ b.W.history = r.W.history
    /\ b.W.logger.enabled = r.W.logger.enabled

\* Enable(path) on W, whose log file cannot be written: the path is enabled,
\* the session is not started, and an Enable after the log file can be written
\* again starts it.
EnabledQuietly(W, path) ==
    LET abs == AbsIn(W.cwd, path)
    IN (LogAppend(W.disk, abs, SessionStart).err /\ abs \notin W.logger.sessionStarted) =>
          /\ Enable(W, path).logger.enabled = W.logger.enabled \cup {abs}
          /\ Enable(W, path).logger.sessionStarted = W.logger.sessionStarted
          /\ Enable(W, path).disk = W.disk
          /\ \A d \in {World.disk} :
                ~LogAppend(d, abs, SessionStart).err =>
                    /\ abs \in Enable([Enable(W, path) EXCEPT !.disk = d], path).logger.sessionStarted
                    /\ Enable([Enable(W, path) EXCEPT !.disk = d], path).disk
                          = LogAppend(d, abs, SessionStart).disk

\* C34: a log file that cannot be written fails no call: Handle changes
\* nothing, Enable adds the path to enabled and not to sessionStarted, so that
\* a later Enable tries the session start again, and Load, Init, Restore and
\* the commands of the dispatcher give what they give when the log is written.
C34_LoggingNeverFails ==
    /\ [](/\ \A path \in LogPaths :
                /\ EnabledQuietly(World, path)
                /\ EnabledQuietly(Blocked(World), path)
          /\ \A evt \in Events :
                /\ (LogAppend(disk, evt.File, EventLine(evt)).err => Handle(World, evt) = World)
                /\ (LogAppend(Blocked(World).disk, evt.File, EventLine(evt)).err
                      => Handle(Blocked(World), evt) = Blocked(World))
          /\ \A path \in OpenPaths :
                /\ SameButLog(Load(Blocked(World), path), Load(World, path))
                /\ \A kind \in InitKinds(path), withLog \in BOOLEAN :
                      SameButLog(Init(Blocked(World), kind, path, withLog),
                                 Init(World, kind, path, withLog))
          /\ SameButLog(Restore(Blocked(World)), Restore(World))
          /\ ~Restore(World).err
          /\ \A c \in Commands :
                SameButLog(Execute(Blocked(World), c, Operation(Blocked(World), c)),
                           Execute(World, c, Operation(World, c))))
    /\ [][/\ (calls' = calls + 1 /\ wcall'.op \in {"log-on", "handle", "restore"}) => ~wcall'.err
          /\ (Succeeds("log-on") /\ LogAppend(disk, wcall'.abs, SessionStart).err
                /\ wcall'.abs \notin logger.sessionStarted)
               => /\ wcall'.abs \in logger'.enabled
                  /\ logger'.sessionStarted = logger.sessionStarted
                  /\ disk' = disk
          /\ \A path \in OpenPaths :
               (/\ calls' = calls + 1 /\ wcall'.op = "init"
                /\ \E kind \in InitKinds(path) :
                      /\ ~Init(World, kind, path, TRUE).err
                      /\ Init(World, kind, path, TRUE).W.editors = editors'
                      /\ LogAppend(disk, resolvePath(path).abs, SessionStart).err)
               => /\ ~wcall'.err
                  /\ resolvePath(path).abs \in DOMAIN editors'
                  /\ resolvePath(path).abs \in logger'.enabled \ logger'.sessionStarted]_vars

\* Init with the log marker has opened a buffer on a.txt/x, whose log file
\* cannot be written: the path is enabled, and its session is not started.
C34_Witness ==
    /\ wcall.op = "init" /\ ~wcall.err
    /\ wcall.abs = PathUnderFile
    /\ PathUnderFile \in DOMAIN editors
    /\ PathUnderFile \in logger.enabled \ logger.sessionStarted
    /\ LogAppend(disk, PathUnderFile, SessionStart).err

(***************************************************************************)
(* The tracker's active path.                                              *)
(***************************************************************************)
\* The call with result r has left the tracker on the active path of the
\* workspace, and has signalled the tracker exactly when the active path changed.
Signalled(r, W) ==
    /\ r.W.stats.active = r.W.active
    /\ r.W.stats = IF r.W.active = W.active THEN W.stats
                   ELSE StatsSwitch(W.stats, W.active, r.W.active)

\* The same for Close(abs), which first tells the tracker that abs is closed.
SignalledClose(r, W, abs) ==
    /\ r.W.stats.active = r.W.active
    /\ r.W.stats = IF r.err THEN W.stats
                   ELSE IF r.W.active = W.active THEN StatsClose(W.stats, abs)
                   ELSE StatsSwitch(StatsClose(W.stats, abs), W.active, r.W.active)

\* C35: the active path of the tracker is the active path of the workspace
\* after every Load, Init, Edit, Close, Persist and Restore; the tracker is
\* told Switch(previous, next) exactly when the active path changes, and a
\* tick of the clock adds to the time of the active buffer and to no other.
C35_TrackerFollowsActive ==
    /\ stats.active = active
    /\ \A path \in UserPaths :
          /\ Signalled(Load(World, path), World)
          /\ Signalled(Edit(World, path), World)
          /\ \A kind \in InitKinds(path), withLog \in BOOLEAN :
                Signalled(Init(World, kind, path, withLog), World)
          /\ \A answer \in Answers :
                SignalledClose(Close(World, path, answer), World,
                               resolvePath(Target(World, path)).abs)
    /\ Restore(World).W.stats.active = Restore(World).W.active
    /\ \A order \in Orders(DOMAIN editors) :
          /\ Persist(World, order, SortedPaths).W.stats.active = active
          /\ Persist(World, order, SortedPaths).W.active = active
    /\ \A p \in TrackedPaths :
          StatsDuration(Tick(stats), p)
             = StatsDuration(stats, p) + (IF p = active THEN 1 ELSE 0)

\* c.txt was loaded and counted time, Edit has made a.txt active, and Edit of
\* a.txt has just been called again: the tracker is on a.txt and was not told.
C35_Witness ==
    /\ wcall.op = "edit" /\ ~wcall.err
    /\ wcall.abs = PathA /\ wcall.prev = PathA
    /\ active = PathA /\ stats.active = PathA
    /\ PathC \in DOMAIN editors
    /\ spent[PathC] > 0 /\ spent[PathA] > 0
    /\ stats.clock > stats.started

(***************************************************************************)
(* The buffer registered under a path.                                     *)
(***************************************************************************)
\* b is the buffer a was: the same instance with the same lines or tree and
\* the same undo and redo stacks; the modified flag may differ.
SameBuffer(a, b) ==
    /\ a.type = b.type
    /\ a.inst = b.inst
    /\ SetModified(a, FALSE) = SetModified(b, FALSE)

\* The call with result r has kept every buffer that was open in W.
BuffersKept(r, W) ==
    \A p \in DOMAIN W.editors :
        /\ p \in DOMAIN r.W.editors
        /\ SameBuffer(W.editors[p], r.W.editors[p])

\* Every open buffer is the one it was before the step.
StepKeepsBuffers ==
    \A p \in DOMAIN editors :
        /\ p \in DOMAIN editors'
        /\ SameBuffer(editors[p], editors'[p])

\* Load, Edit, Save, SaveAll and Restore keep every open buffer, and so does
\* an Init that fails or that names a path that is not open.
C36_KeptButByInit ==
    /\ [](/\ \A path \in UserPaths :
                /\ BuffersKept(Load(World, path), World)
                /\ BuffersKept(Edit(World, path), World)
                /\ BuffersKept(Save(World, path), World)
                /\ \A kind \in InitKinds(path), withLog \in BOOLEAN :
                      (Init(World, kind, path, withLog).err
                          \/ resolvePath(path).abs \notin DOMAIN editors)
                        => BuffersKept(Init(World, kind, path, withLog), World)
          /\ \A order \in Orders(DOMAIN editors) : BuffersKept(SaveEach(World, order), World)
          /\ BuffersKept(Restore(World), World))
    /\ [][(/\ calls' = calls + 1
           /\ wcall'.op \in {"load", "edit", "save", "save-all", "restore", "persist",
                             "by-path"})
            => StepKeepsBuffers]_vars

\* C36: a buffer registered under a path is replaced or discarded by Close
\* only: Load, Init, Edit, Save, SaveAll and Restore on a path that is open,
\* also Init on an open path whose file does not exist, keep the same
\* instance with its lines or tree and its undo and redo history.
C36_RegisteredBufferKept ==
    /\ \A path \in UserPaths :
          /\ BuffersKept(Load(World, path), World)
          /\ BuffersKept(Edit(World, path), World)
          /\ BuffersKept(Save(World, path), World)
          /\ \A kind \in InitKinds(path), withLog \in BOOLEAN :
                BuffersKept(Init(World, kind, path, withLog), World)
    /\ \A order \in Orders(DOMAIN editors) : BuffersKept(SaveEach(World, order), World)
    /\ BuffersKept(Restore(World), World)

\* c.txt, which is not on disk, is open with an edit that can be undone: Init
\* of c.txt succeeds and puts a new, empty buffer in its place.
C36_Witness ==
    /\ PathC \in DOMAIN editors
    /\ Stat(disk, PathC).kind = "none"
    /\ editors[PathC].type = "text"
    /\ editors[PathC].ed.undoStack # <<>>
    /\ \E r \in {Init(World, <<"text">>, RelPath(<<NameC>>), FALSE)} :
          /\ ~r.err
          /\ r.W.editors[PathC].inst # editors[PathC].inst
          /\ r.W.editors[PathC].ed.undoStack = <<>>
          /\ r.W.editors[PathC].ed.lines # editors[PathC].ed.lines

(***************************************************************************)
(* A text buffer saved, closed and loaded again.                           *)
(***************************************************************************)
\* The text buffer e is open on c.txt in W; Save, Close and Load of c.txt give
\* [err, lines]: the lines of the buffer Load has opened.
Reloaded(W, e) ==
    LET W0 == setActive(Register(W, PathC, TextBuffer(0, e)), PathC)
        s == Save(W0, RelPath(<<NameC>>))
        c == Close(s.W, RelPath(<<NameC>>), "absent")
        l == Load(c.W, RelPath(<<NameC>>))
    IN IF s.err \/ c.err \/ l.err THEN [err |-> TRUE, lines |-> <<>>]
       ELSE [err |-> FALSE, lines |-> l.W.editors[PathC].ed.lines]

\* Save, Close and Load give the lines back but for one empty line at the end,
\* which is dropped.
C37_ReloadDropsEmptyLastLine ==
    /\ ~Reloaded(World, text).err
    /\ Reloaded(World, text).lines
          = IF Len(text.lines) > 0 /\ text.lines[Len(text.lines)] = <<>>
            THEN SliceTo(text.lines, Len(text.lines) - 1)
            ELSE text.lines

\* C37: Save, Close and Load of the path of a text buffer give exactly the
\* lines the buffer had, whatever they were: also one empty line, lines that
\* end in an empty line, and no line.
C37_SaveCloseLoadSameLines ==
    /\ ~Reloaded(World, text).err
    /\ Reloaded(World, text).lines = text.lines

\* Append("") on the empty buffer has made the one empty line; saved, closed
\* and loaded, the buffer has no line.
C37_Witness ==
    /\ tcall.op = "append" /\ ~tcall.err
    /\ text.lines = << <<>> >>
    /\ TextContent(text) = <<>>
    /\ Reloaded(World, text) = [err |-> FALSE, lines |-> <<>>]

(***************************************************************************)
(* An XML tree written and parsed again.                                   *)
(***************************************************************************)
RECURSIVE Shape(_, _)
\* The tags, the ids and the order of the children of the tree at a.
Shape(h, a) ==
    [Tag |-> h[a].Tag, ID |-> h[a].ID,
     Children |-> [i \in 1..Len(h[a].Children) |-> Shape(h, h[a].Children[i])]]

\* ParseXMLEditor of the Content of the tree at root: [err, heap, root]
Reparsed(h, root) == parseXML(XmlContent([root |-> root], h).toks)

\* The parser accepts the serialized tree and builds the same tags, ids and
\* children in the same order.
Accepted(h, root) ==
    /\ Reparsed(h, root).err = ""
    /\ Shape(Reparsed(h, root).heap, Reparsed(h, root).root) = Shape(h, root)

\* The tree a mutation has made, when it has made one, is accepted.
AcceptedAfter(m, root) == m.err = "" => Accepted(m.heap, root)

\* The ids an element can be given: those of XmlIds, and the empty string.
NewXmlIds == XmlIds \cup {""}

\* Every tree made with the ids of XmlIds is accepted by the parser with the
\* same tags, ids and order of children.
C38_NamedTreeLoads ==
    /\ Accepted(heap, xml.root)
    /\ \A tag \in XmlTags, newID \in XmlIds, id \in XmlIds :
          /\ \A t \in XmlTextArgs :
                /\ AcceptedAfter(InsertBeforeMutate(heap, xml.index, tag, newID, id, t), xml.root)
                /\ AcceptedAfter(AppendChildMutate(heap, xml.index, tag, newID, id, t), xml.root)
          /\ AcceptedAfter(EditIDMutate(heap, xml.index, id, newID), xml.root)
          /\ AcceptedAfter(DeleteElementMutate(heap, xml.index, id), xml.root)
          /\ \A s \in XmlTexts : AcceptedAfter(EditTextMutate(heap, xml.index, id, s), xml.root)

\* C38: every tree InsertBefore, AppendChild, EditId, EditText, DeleteElement,
\* Undo and Redo make of the default root or of a parsed document is accepted
\* by the parser when it is serialized: its ids are not empty and unique and
\* no element has text and children, and the tree parsed has the same tags,
\* ids and order of children.
C38_EditedTreeLoads ==
    /\ Accepted(heap, xml.root)
    /\ \A tag \in XmlTags, newID \in NewXmlIds, id \in XmlIds :
          /\ \A t \in XmlTextArgs :
                /\ AcceptedAfter(InsertBeforeMutate(heap, xml.index, tag, newID, id, t), xml.root)
                /\ AcceptedAfter(AppendChildMutate(heap, xml.index, tag, newID, id, t), xml.root)
          /\ AcceptedAfter(EditIDMutate(heap, xml.index, id, newID), xml.root)

\* An element a is in the tree: EditId(a, "") succeeds and makes a tree whose
\* serialization the parser rejects, and so does AppendChild of an element
\* with the id "".
C38_Witness ==
    /\ xcall.op = "append-child" /\ ~xcall.err
    /\ "a" \in DOMAIN xml.index
    /\ EditIDMutate(heap, xml.index, "a", "").err = ""
    /\ Reparsed(EditIDMutate(heap, xml.index, "a", "").heap, xml.root).err = "Parse"
    /\ AppendChildMutate(heap, xml.index, "t", "", "root", NoText).err = ""
    /\ Reparsed(AppendChildMutate(heap, xml.index, "t", "", "root", NoText).heap, xml.root).err
          = "Parse"

(***************************************************************************)
(* The records of the undo and redo stacks.                                *)
(***************************************************************************)
\* One buffer is edited, a text buffer or an XML buffer: the other stays as
\* it was built.
BufferInit == (TextStart /\ XmlIdle /\ WsIdle) \/ (XmlStart /\ TextIdle /\ WsIdle)

TextBufferNext == XmlIdle /\ TextNext

XmlBufferNext == TextIdle /\ XmlNext

BufferNext == TextBufferNext \/ XmlBufferNext

SpecBuffer == BufferInit /\ [][BufferNext]_vars

\* The records of a stack of the XML buffer, the snapshots as the trees they hold.
XmlRecords(h, stack) ==
    [i \in DOMAIN stack |->
        [description |-> stack[i].description,
         before |-> TreeVal(h, stack[i].before),
         after |-> TreeVal(h, stack[i].after)]]

TextOps == {"append", "insert", "delete", "replace"}

\* C39: in both kinds of buffer the content is the after-snapshot of the top
\* of the undo stack and the before-snapshot of the top of the redo stack,
\* whenever that stack has a record; Undo and Redo move one record from one
\* stack to the other, a successful edit puts one record on the undo stack and
\* empties the redo stack, and a call that fails leaves both as they were.
C39_StackTopsAreContent ==
    /\ [](/\ (text.undoStack # <<>> => text.lines = Top(text.undoStack).after)
          /\ (text.redoStack # <<>> => text.lines = Top(text.redoStack).before)
          /\ (xml.undoStack # <<>> =>
                 TreeVal(heap, xml.root) = TreeVal(heap, Top(xml.undoStack).after))
          /\ (xml.redoStack # <<>> =>
                 TreeVal(heap, xml.root) = TreeVal(heap, Top(xml.redoStack).before)))
    /\ [][/\ ((text' # text /\ tcall'.op = "undo") =>
                 /\ text.undoStack # <<>>
                 /\ text'.undoStack = SliceTo(text.undoStack, Len(text.undoStack) - 1)
                 /\ text'.redoStack = Append(text.redoStack, Top(text.undoStack)))
          /\ ((text' # text /\ tcall'.op = "redo") =>
                 /\ text.redoStack # <<>>
                 /\ text'.redoStack = SliceTo(text.redoStack, Len(text.redoStack) - 1)
                 /\ text'.undoStack = Append(text.undoStack, Top(text.redoStack)))
          /\ ((text' # text /\ tcall'.op \in TextOps) =>
                 /\ text'.undoStack
                       = Append(text.undoStack,
                                [description |-> tcall'.op, before |-> text.lines,
                                 after |-> text'.lines])
                 /\ text'.redoStack = <<>>)
          /\ (tcall'.err => text' = text)
          /\ ((xml' # xml /\ xcall'.op = "undo") =>
                 /\ xml.undoStack # <<>>
                 /\ XmlRecords(heap', xml'.undoStack)
                       = SliceTo(XmlRecords(heap, xml.undoStack), Len(xml.undoStack) - 1)
                 /\ XmlRecords(heap', xml'.redoStack)
                       = Append(XmlRecords(heap, xml.redoStack),
                                Top(XmlRecords(heap, xml.undoStack))))
          /\ ((xml' # xml /\ xcall'.op = "redo") =>
                 /\ xml.redoStack # <<>>
                 /\ XmlRecords(heap', xml'.redoStack)
                       = SliceTo(XmlRecords(heap, xml.redoStack), Len(xml.redoStack) - 1)
                 /\ XmlRecords(heap', xml'.undoStack)
                       = Append(XmlRecords(heap, xml.undoStack),
                                Top(XmlRecords(heap, xml.redoStack))))
          /\ ((xml' # xml /\ xcall'.op \in XmlEditOps) =>
                 /\ XmlRecords(heap', xml'.undoStack)
                       = Append(XmlRecords(heap, xml.undoStack),
                                [description |-> xcall'.op,
                                 before |-> TreeVal(heap, xml.root),
                                 after |-> TreeVal(heap', xml'.root)])
                 /\ xml'.redoStack = <<>>)
          /\ (xcall'.err =>
                 /\ TreeVal(heap', xml'.root) = TreeVal(heap, xml.root)
                 /\ XmlRecords(heap', xml'.undoStack) = XmlRecords(heap, xml.undoStack)
                 /\ XmlRecords(heap', xml'.redoStack) = XmlRecords(heap, xml.redoStack))]_vars

\* Two edits and one Undo of the XML buffer: a record on each stack, and the
\* tree is the after-snapshot of the one and the before-snapshot of the other.
C39_Witness ==
    /\ xcall.op = "undo" /\ ~xcall.err
    /\ Len(xml.undoStack) = 1 /\ Len(xml.redoStack) = 1
    /\ TreeVal(heap, Top(xml.undoStack).after) = TreeVal(heap, Top(xml.redoStack).before)
    /\ TreeVal(heap, Top(xml.redoStack).after) # TreeVal(heap, xml.root)
    /\ TreeVal(heap, Top(xml.undoStack).before) # TreeVal(heap, xml.root)

\* The same of the text buffer.
C39_TextWitness ==
    /\ tcall.op = "undo" /\ ~tcall.err
    /\ Len(text.undoStack) = 1 /\ Len(text.redoStack) = 1
    /\ Top(text.undoStack).after = Top(text.redoStack).before
    /\ Top(text.redoStack).after # text.lines
    /\ Top(text.undoStack).before # text.lines

(***************************************************************************)
(* Buffers that are not modified.                                          *)
(***************************************************************************)
\* The buffer b holds what the file entry holds: the bytes Save wrote are the
\* buffer's Content(), or the buffer is what Load makes of the file.
InSync(b, entry) ==
    /\ entry.kind = "file"
    /\ IF b.type = "text"
       THEN \/ entry.units = TextContent(b.ed)
            \/ b.ed.lines = splitLines(entry.units)
       ELSE \/ Decode(entry) = XmlContent(b.ed.xml, b.ed.heap).toks
            \/ /\ parseXML(Decode(entry)).err = ""
               /\ TreeVal(parseXML(Decode(entry)).heap, parseXML(Decode(entry)).root)
                     = TreeVal(b.ed.heap, b.ed.xml.root)

\* Every buffer of W that is not modified holds what its file holds.
CleanInSync(W) ==
    \A p \in DOMAIN W.editors :
        ~IsModified(W.editors[p]) => InSync(W.editors[p], Stat(W.disk, p))

\* C40: after any sequence of Load, Init, edits, Undo, Redo, Save, SaveAll,
\* Close, Persist and Restore every open buffer whose modified flag is false
\* holds the content last read from or written to its file.
C40_UnmodifiedIsOnDisk == CleanInSync(World)

\* a.txt was loaded, the state persisted and the buffer edited; Restore has
\* set its modified flag to false, and the line is not in the file.
C40_Witness ==
    /\ wcall.op = "restore" /\ ~wcall.err
    /\ PathA \in DOMAIN editors
    /\ ~IsModified(editors[PathA])
    /\ editors[PathA].ed.undoStack # <<>>
    /\ TextContent(editors[PathA].ed) # Stat(disk, PathA).units
    /\ editors[PathA].ed.lines # splitLines(Stat(disk, PathA).units)

====
